---- MODULE Spec2Model ----
(***************************************************************************)
(* A model of the lead synchronisation engine of leadgen:                  *)
(*   src/leadgen/instantly.py      campaign directory and campaign client  *)
(*   src/leadgen/sync_manager.py   reconciler, cleanup and orchestrators   *)
(*   src/leadgen/millionverifier.py verification gate                      *)
(*   src/leadgen/airtable_utils.py datastore batch update                  *)
(* Every HTTP attempt of _request_with_retry is one step of the model; the *)
(* code a worker runs between two requests is thread-local and is folded   *)
(* into the step that completes the earlier request.                       *)
(***************************************************************************)
EXTENDS Integers, Sequences, FiniteSets, TLC

(***************************************************************************)
(* Bounds of the model.                                                    *)
(***************************************************************************)
MaxRuns == 2          \* sync runs started in one behaviour
Retries == 1          \* the retries of _request_with_retry (4 in the code)

(***************************************************************************)
(* Program constants.                                                      *)
(***************************************************************************)
UuidLen == 36         \* is_valid_uuid: len(val) == 36
UuidParts == 5        \* is_valid_uuid: len(parts) == 5
MaxWorkers == 5       \* ThreadPoolExecutor(max_workers=5)

(***************************************************************************)
(* Values.  Python's None, and strings that remember the two things the    *)
(* code's conversions look at: letter case (lower()) and surrounding       *)
(* blanks (strip()).                                                       *)
(***************************************************************************)
None == [k |-> "none"]

Str(s, caps, pad) == [k |-> "str", s |-> s, caps |-> caps, pad |-> pad]

IsStr(v) == v.k = "str"

\* str.lower(): an empty text has no letters to change
Lower(v) == [v EXCEPT !.caps = FALSE]

\* str.strip()
Strip(v) == [v EXCEPT !.pad = FALSE]

\* Python truthiness of a value: None and "" are falsy, " " is truthy
Truthy(v) == v.k # "none" /\ (v.k = "str" => (v.s # "" \/ v.pad))

\* a float NaN, as pandas leaves in an empty cell
NaN == [k |-> "nan"]

\* the other values sanitize_for_json tells apart: an infinite float, a
\* pandas NaT/NA, a date or datetime (iso is its isoformat() text), a
\* finite number, a numpy scalar holding a finite number, a bool, and
\* the containers: dict (items is a function of its keys), list, tuple
\* and numpy array (items is a sequence)
Inf == [k |-> "inf"]

NaT == [k |-> "nat"]

Date(iso) == [k |-> "date", iso |-> iso]

Num(n) == [k |-> "num", n |-> n]

NpNum(n) == [k |-> "npnum", n |-> n]

Bool(b) == [k |-> "bool", b |-> b]

Dict(items) == [k |-> "dict", items |-> items]

List(items) == [k |-> "list", items |-> items]

Tuple(items) == [k |-> "tuple", items |-> items]

Array(items) == [k |-> "array", items |-> items]

\* json_sanitize.py _is_bad_float, lines 8-28
_is_bad_float(v) == v.k \in {"nan", "inf"}

\* json_sanitize.py _is_pandas_na, lines 31-45: pd.isna of a scalar; of a
\* container it answers with an array, which is not taken
_is_pandas_na(v) == v.k = "nat"

\* a variant that lets a NaN through
sanitize_for_json_Keep(v) == v

\* a variant that looks at the value itself and not inside containers
sanitize_for_json_Shallow(v) ==
    IF v.k = "none" \/ _is_bad_float(v) \/ _is_pandas_na(v) THEN None
    ELSE IF v.k = "date" THEN Str(v.iso, FALSE, FALSE)
    ELSE IF v.k \in {"tuple", "array"} THEN List(v.items)
    ELSE IF v.k = "npnum" THEN Num(v.n)
    ELSE v

\* json_sanitize.py sanitize_for_json, lines 48-107: the tests in the
\* order of the code; a dict or a list is built anew from the sanitized
\* items, and a tuple or an array comes back as a list
RECURSIVE sanitize_for_json(_)
sanitize_for_json(v) ==
    IF v.k = "none" THEN None
    ELSE IF _is_bad_float(v) THEN None
    ELSE IF _is_pandas_na(v) THEN None
    ELSE IF v.k = "date" THEN Str(v.iso, FALSE, FALSE)
    ELSE IF v.k = "array" THEN
        List([i \in 1..Len(v.items) |-> sanitize_for_json(v.items[i])])
    ELSE IF v.k = "dict" THEN
        Dict([key \in DOMAIN v.items |-> sanitize_for_json(v.items[key])])
    ELSE IF v.k \in {"list", "tuple"} THEN
        List([i \in 1..Len(v.items) |-> sanitize_for_json(v.items[i])])
    ELSE IF v.k = "npnum" THEN Num(v.n)
    ELSE v

\* Identifiers of campaign leads: a text of len characters holding
\* dashes hyphens; n tells two texts of the same shape apart.
IdText(len, dashes, n) == [k |-> "id", len |-> len, dashes |-> dashes, n |-> n]

Uuid(n) == IdText(36, 4, n)

NotAUuid == IdText(10, 2, 0)       \* "not-a-uuid"

\* instantly.py is_valid_uuid: val.split("-") has 5 parts and len(val) == 36
is_valid_uuid(val) ==
    /\ val.k = "id"
    /\ val.dashes + 1 = UuidParts
    /\ val.len = UuidLen

(***************************************************************************)
(* millionverifier.py                                                      *)
(***************************************************************************)
VALID_STATUSES == {"ok", "invalid", "catch_all", "unknown", "disposable"}

GOOD_STATUSES == {"ok"}

\* _normalize_status: strip, lower, and map anything unexpected to unknown.
\* A text equals a canonical status only when, after strip() and lower(),
\* it has neither capitals nor blanks left and its letters are those of the
\* status.
normalize_status(raw) ==
    IF ~Truthy(raw) \/ ~IsStr(raw) THEN "unknown"
    ELSE LET cleaned == Lower(Strip(raw))
         IN  IF cleaned.s \in VALID_STATUSES THEN cleaned.s ELSE "unknown"

(***************************************************************************)
(* State.                                                                  *)
(***************************************************************************)
VARIABLES
    cfg,        \* parameters of the session: retries, max_records, whether
                \* verification is enabled, and what the network may do
    campaigns,  \* platform: the campaigns, in listing order, [name, id]
    rleads,     \* platform: the campaign leads, [id, email, camp]
    nextId,     \* platform: the next identifier it hands out
    cache,      \* instantly._campaign_cache (name -> id)
    loaded,     \* instantly._campaign_cache_loaded
    lock,       \* holder of instantly._campaign_cache_lock (0: free)
    varsReg,    \* instantly._campaign_vars_registered
    ds,         \* datastore: the lead records
    clock,      \* time, as the number of edits and runs so far
    run,        \* the orchestrator (main thread) of the current run
    task,       \* the worker tasks of the current run, by lead
    reqs,       \* history: HTTP requests sent in the current run
    posts       \* history: create-campaign requests sent in this session

vars == <<cfg, campaigns, rleads, nextId, cache, loaded, lock, varsReg,
          ds, clock, run, task, reqs, posts>>

platform == <<campaigns, rleads, nextId>>
directory == <<cache, loaded, lock>>

(***************************************************************************)
(* sync_manager.py _process_single_lead, lines 84-106: the inputs the      *)
(* reconciler derives from a record.                                       *)
(***************************************************************************)
\* has_email_mark = str(email_avail) == "1" or email_avail is True
HasEmailMark(lead) == lead.email_available \in {"1", "true"}

\* email: None unless a non-blank text, else strip().lower()
NormEmail(raw) ==
    IF ~IsStr(raw) \/ Strip(raw).s = "" THEN None ELSE Lower(Strip(raw))

\* industry: "Generic" when falsy (a list takes its first element, which the
\* record holds in .s)
IndustryOf(lead) == IF ~Truthy(lead.industry) THEN "Generic" ELSE lead.industry.s

\* camp_name = f"{industry} - Cold Outreach"
CampNameOf(lead) == IndustryOf(lead) \o " - Cold Outreach"

\* a variant that takes any stored pointer as valid
HasValidPointer_Any(lead) == lead.instantly_lead_id # None

\* lead_id_instantly and is_valid_uuid(lead_id_instantly)
HasValidPointer(lead) == lead.instantly_lead_id # None /\ is_valid_uuid(lead.instantly_lead_id)

(***************************************************************************)
(* The campaign platform, as the wire protocol of spec.md section 6        *)
(* describes it.  An identifier names at most one campaign lead.           *)
(***************************************************************************)
RemoteLead(id) == CHOOSE l \in rleads : l.id = id

RemoteHas(id) == \E l \in rleads : l.id = id

\* leads an email search may return: same email (letter case apart), in the
\* given campaign when one is given
Matches(email, camp) ==
    {l \in rleads : Lower(l.email) = email /\ (camp # None => l.camp = camp)}

\* POST /leads/add of one lead: with skip_if_in_campaign a lead whose email
\* is already in the campaign is not created again
AddCreates(payload) ==
    ~(payload.skip_if_in_campaign /\ Matches(payload.email, payload.campaign_id) # {})

NewLead(payload) == [id |-> Uuid(nextId), email |-> payload.email, camp |-> payload.campaign_id]

CampId(n) == [k |-> "camp", n |-> n]

(***************************************************************************)
(* instantly.py _request_with_retry, lines 25-75.  A response is           *)
(* [kind |-> "resp", status, body]; an exception of requests.request is    *)
(* [kind |-> "exc"].  RetryStep is one pass of the loop body for the       *)
(* response of attempt number attempt.                                     *)
(***************************************************************************)
BackoffS == 1         \* backoff_s: float = 1.0

Min(a, b) == IF a < b THEN a ELSE b

Pow2(n) == IF n = 0 THEN 1 ELSE IF n = 1 THEN 2 ELSE IF n = 2 THEN 4
           ELSE IF n = 3 THEN 8 ELSE IF n = 4 THEN 16 ELSE 32

Resp(status, body) == [kind |-> "resp", status |-> status, body |-> body]

\* the body of an error response: whether its text holds "not found"
ErrBody(nf) == [nf |-> nf]

Exc == [kind |-> "exc"]

\* raise RuntimeError("request retry loop ended unexpectedly")
LoopEnded == [kind |-> "loop"]

\* a 429 carries its Retry-After header: None, a number of seconds
\* [k |-> "num", n], or a text float() rejects [k |-> "junk"]
Resp429(retry_after) ==
    [kind |-> "resp", status |-> 429, body |-> None, retry_after |-> retry_after]

\* a variant that does not read the header
RetryAfterWait_Backoff(retry_after, attempt) == BackoffS * Pow2(attempt)

\* float(retry_after) if retry_after else backoff_s * (2**attempt), and the
\* same backoff when float() raises
RetryAfterWait(retry_after, attempt) ==
    IF retry_after.k = "num" THEN retry_after.n ELSE BackoffS * Pow2(attempt)

RetryStep(attempt, retries, lastExc, r) ==
    IF r.kind = "exc"
    THEN IF attempt >= retries
         THEN [next |-> "raise", result |-> Exc, wait |-> 0, lastExc |-> TRUE]
         ELSE [next |-> "sleep", result |-> None,
               wait |-> Min(BackoffS * Pow2(attempt), 10), lastExc |-> TRUE]
    ELSE IF r.status = 429
    THEN [next |-> "sleep", result |-> None,
          wait |-> Min(RetryAfterWait(r.retry_after, attempt), 30),
          lastExc |-> lastExc]
    ELSE IF 500 <= r.status /\ r.status < 600 /\ attempt < retries
    THEN [next |-> "sleep", result |-> None,
          wait |-> Min(BackoffS * Pow2(attempt), 10), lastExc |-> lastExc]
    ELSE [next |-> "return", result |-> r, wait |-> 0, lastExc |-> lastExc]

\* a variant whose loop makes one more pass
AfterSleep_OneMore(attempt, retries, lastExc) ==
    IF attempt <= retries THEN [next |-> "send", result |-> None]
    ELSE [next |-> "raise", result |-> IF lastExc THEN Exc ELSE LoopEnded]

\* after the sleep: the next pass of `for attempt in range(retries + 1)`,
\* or the lines after the loop (72-75)
AfterSleep(attempt, retries, lastExc) ==
    IF attempt + 1 <= retries THEN [next |-> "send", result |-> None]
    ELSE [next |-> "raise", result |-> IF lastExc THEN Exc ELSE LoopEnded]

(***************************************************************************)
(* The local state of a worker between two requests: its task record and   *)
(* the module-level state of instantly.py it may touch,                    *)
(* L = [tk, cache, loaded, lock, varsReg].                                 *)
(***************************************************************************)
Call(tk, pc, at) ==
    [tk EXCEPT !.pc = pc, !.at = at, !.attempt = 0, !.lastExc = FALSE,
               !.sleeping = FALSE, !.wait = 0]

\* the function returns res: its locals are gone
Returned(tk, res) ==
    [tk EXCEPT !.pc = "done", !.at = "", !.cid = None, !.attempt = 0,
               !.lastExc = FALSE, !.sleeping = FALSE, !.wait = 0, !.skip = 0,
               !.page = 0, !.acc = <<>>, !.exists = FALSE, !.op = "",
               !.newId = None, !.err1 = FALSE, !.res = res]

\* sync_manager.py lines 109-113, 154, 184, 191, 218: a Failed outcome
Fail(L, error) ==
    [L EXCEPT !.tk = Returned(L.tk,
        [id |-> L.tk.lead.id, status |-> "Failed", error |-> error])]

\* a JSON value that is not a mapping (a string, a number, a list)
Junk == [k |-> "junk"]

\* sync_manager.py lines 129, 146, 176, 210: .get() on a value that is not
\* a mapping raises AttributeError; nothing in _process_single_lead catches
\* it, so the worker's future holds the exception instead of an outcome
Raise(L) ==
    [L EXCEPT !.tk = Returned(L.tk, [id |-> L.tk.lead.id, status |-> "Raised"])]

\* a variant that forgets the campaign of a created lead
SuccessCampaign_NotOnCreate(tk, op) ==
    IF op \in {"Update", "Link"} THEN tk.cid ELSE None

\* line 239: "campaign_id": c_id if operation in (Create, Update, Link)
SuccessCampaign(tk, op) ==
    IF op \in {"Create", "Update", "Link"} THEN tk.cid ELSE None

\* a variant that leaves new_instantly_id at the record's pointer
Done_KeepsPointer(L, op, newId) ==
    [L EXCEPT !.tk = Returned(L.tk,
        [id |-> L.tk.lead.id, status |-> "Success", op |-> op,
         new_instantly_id |-> L.tk.lead.instantly_lead_id,
         campaign_id |-> SuccessCampaign(L.tk, op)])]

\* sync_manager.py lines 234-240: the Success outcome
Done(L, op, newId) ==
    [L EXCEPT !.tk = Returned(L.tk,
        [id |-> L.tk.lead.id, status |-> "Success", op |-> op,
         new_instantly_id |-> newId,
         campaign_id |-> SuccessCampaign(L.tk, op)])]

\* instantly.py export_leads_to_instantly lines 289-299: register the
\* campaign's variables on the first export to it, then POST /leads/add
\* a variant that does not remember the campaign
StartExport_Forgets(L, at) ==
    LET should_register == L.tk.cid \notin L.varsReg
    IN  [L EXCEPT !.tk = Call([@ EXCEPT !.err1 = FALSE],
                              IF should_register THEN "vars" ELSE "add1", at)]

StartExport(L, at) ==
    LET should_register == L.tk.cid \notin L.varsReg
    IN  [L EXCEPT !.varsReg = @ \cup {L.tk.cid},
                  !.tk = Call([@ EXCEPT !.err1 = FALSE],
                              IF should_register THEN "vars" ELSE "add1", at)]

\* sync_manager.py lines 115-232, up to the first request of the branch
Dispatch(L, c_id) ==
    LET tk == [L.tk EXCEPT !.cid = c_id, !.op = "Skip",
                           !.newId = L.tk.lead.instantly_lead_id]
        M  == [L EXCEPT !.tk = tk]
    IN  IF HasValidPointer(tk.lead)
        THEN IF HasEmailMark(tk.lead) /\ tk.email # None
             THEN [M EXCEPT !.tk = Call(tk, "get", "A1")]
             ELSE [M EXCEPT !.tk = Call([tk EXCEPT !.op = "Delete"], "del", "A2")]
        ELSE IF HasEmailMark(tk.lead) /\ tk.email # None
             THEN [M EXCEPT !.tk = Call(tk, "search", "B1")]
             ELSE Done(M, "Skip", None)

\* a variant that goes on without a campaign
Resolved_GoesOn(L, c_id) == Dispatch(L, c_id)

\* lines 108-113: no campaign, the lead fails before any other work
Resolved(L, c_id) ==
    IF c_id = None THEN Fail(L, "no_campaign") ELSE Dispatch(L, c_id)

(***************************************************************************)
(* instantly.py find_or_create_instantly_campaign, lines 205-272, and      *)
(* _list_all_campaigns, lines 125-166.                                     *)
(***************************************************************************)
PageLimit == 2        \* limit = 100, scaled down
MaxPages == 2         \* max_pages = 50, scaled down

Max(S) == CHOOSE x \in S : \A y \in S : y <= x

\* for c in campaigns: _campaign_cache[name] = cid (a later item wins)
Hydrate(c, items) ==
    LET names == {items[i].name : i \in 1..Len(items)}
    IN  [n \in DOMAIN c \cup names |->
            IF n \in names
            THEN items[Max({i \in 1..Len(items) : items[i].name = n})].id
            ELSE c[n]]

CachePut(c, name, id) == [n \in DOMAIN c \cup {name} |-> IF n = name THEN id ELSE c[n]]

\* a variant that leaves the lock with its holder
Release_Keeps(L) == L

\* the end of `with _campaign_cache_lock:` (line 220), on any return
Release(L) == [L EXCEPT !.lock = 0]

\* a variant that does not take _campaign_cache_lock
FindOrCreateEnter_NoLock(L, t) ==
    IF L.tk.name \in DOMAIN L.cache
    THEN Resolved(L, L.cache[L.tk.name])
    ELSE IF ~L.loaded
    THEN [L EXCEPT !.tk = Call([@ EXCEPT !.skip = 0, !.page = 0, !.acc = <<>>], "list", "")]
    ELSE [L EXCEPT !.tk = Call(@, "create", "")]

\* lines 220-251: with the lock taken, up to the first request
FindOrCreateEnter(L, t) ==
    IF L.tk.name \in DOMAIN L.cache
    THEN Resolved(L, L.cache[L.tk.name])
    ELSE IF ~L.loaded
    THEN [L EXCEPT !.lock = t,
                   !.tk = Call([@ EXCEPT !.skip = 0, !.page = 0, !.acc = <<>>], "list", "")]
    ELSE [L EXCEPT !.lock = t, !.tk = Call(@, "create", "")]

\* lines 235-251: the listing is complete
AfterListing(L, all) ==
    LET c == Hydrate(L.cache, all)
        M == [L EXCEPT !.cache = c, !.loaded = TRUE]
    IN  IF L.tk.name \in DOMAIN c
        THEN Resolved(Release(M), c[L.tk.name])
        ELSE [M EXCEPT !.tk = Call([@ EXCEPT !.skip = 0, !.page = 0, !.acc = <<>>],
                                   "create", "")]

\* a variant that marks the cache loaded although the listing failed
AfterList_MarksLoaded(L, r) ==
    IF r.kind # "resp" \/ r.status # 200
    THEN Resolved(Release([L EXCEPT !.loaded = TRUE]), None)
    ELSE LET items == r.body
             acc == L.tk.acc \o items
         IN  IF items = <<>> THEN AfterListing(L, L.tk.acc)
             ELSE IF Len(items) < PageLimit \/ L.tk.page + 1 >= MaxPages
             THEN AfterListing(L, acc)
             ELSE [L EXCEPT !.tk = Call([@ EXCEPT !.acc = acc, !.page = @ + 1,
                                                  !.skip = @ + PageLimit], "list", "")]

\* _list_all_campaigns: one page has been answered
AfterList(L, r) ==
    IF r.kind # "resp" \/ r.status # 200
    THEN Resolved(Release(L), None)
    ELSE LET items == r.body
             acc == L.tk.acc \o items
         IN  IF items = <<>> THEN AfterListing(L, L.tk.acc)
             ELSE IF Len(items) < PageLimit \/ L.tk.page + 1 >= MaxPages
             THEN AfterListing(L, acc)
             ELSE [L EXCEPT !.tk = Call([@ EXCEPT !.acc = acc, !.page = @ + 1,
                                                  !.skip = @ + PageLimit], "list", "")]

\* lines 253-272: the create request has been answered
AfterCreate(L, r) ==
    IF r.kind = "resp" /\ r.status = 200 /\ r.body # None
    THEN Resolved(Release([L EXCEPT !.cache = CachePut(@, L.tk.name, r.body)]), r.body)
    ELSE Resolved(Release(L), None)

(***************************************************************************)
(* sync_manager.py _process_single_lead, lines 122-232: what the worker    *)
(* does with the answer of each client call.  ok(r) is the client's        *)
(* "status 200" test; a raised exception is caught by every client         *)
(* function and returned as an error.                                      *)
(***************************************************************************)
Ok200(r) == r.kind = "resp" /\ r.status = 200

\* delete_lead_from_instantly: 200 or 204
DeleteOk(r) == r.kind = "resp" /\ r.status \in {200, 204}

\* "not found" in str(err).lower(), err holding the response's text
SaysNotFound(r) == r.kind = "resp" /\ r.body.nf

\* lines 127-134 and 155-158
AfterGet(L, r) ==
    LET exists == Ok200(r)
        inst_email == IF exists /\ r.body # Junk THEN Lower(r.body.email) ELSE None
        email_matches == Truthy(inst_email) /\ inst_email = L.tk.email
    IN  IF exists /\ r.body = Junk THEN Raise(L)
        ELSE IF exists /\ email_matches
        THEN [L EXCEPT !.tk = Call([@ EXCEPT !.exists = exists, !.op = "Update"],
                                   "patch", "A1a")]
        ELSE [L EXCEPT !.tk = Call([@ EXCEPT !.exists = exists], "search", "A1b")]

\* a variant that fails the lead when the patch fails
AfterPatch_NoFallback(L, r) ==
    IF Ok200(r) THEN Done(L, "Update", L.tk.newId) ELSE Fail(L, "update_failed")

\* lines 138-143
AfterPatch(L, r) ==
    IF Ok200(r) THEN Done(L, "Update", L.tk.newId)
    ELSE [L EXCEPT !.tk = Call([@ EXCEPT !.op = "Create"], "del", "A1a")]

\* a variant in which only a 200 or a 204 counts as a deletion
AfterDelete_NoNotFound(L, r) ==
    CASE L.tk.at = "A1a" -> StartExport(L, "A1a")
      [] L.tk.at = "A1b_link" -> Done(L, "Link", L.tk.newId)
      [] L.tk.at = "A1b_create" -> StartExport(L, "A1b")
      [] L.tk.at = "A2" ->
            IF DeleteOk(r) THEN Done(L, "Delete", None)
            ELSE Fail(L, "delete_failed")

\* lines 143-144, 167, 172-174, 188-191
AfterDelete(L, r) ==
    CASE L.tk.at = "A1a" -> StartExport(L, "A1a")
      [] L.tk.at = "A1b_link" -> Done(L, "Link", L.tk.newId)
      [] L.tk.at = "A1b_create" -> StartExport(L, "A1b")
      [] L.tk.at = "A2" ->
            IF DeleteOk(r) \/ SaysNotFound(r) THEN Done(L, "Delete", None)
            ELSE Fail(L, "delete_failed")

\* lines 149-154, 158-174, 179-184, 199-207, 213-228; found is the lead
\* search_lead_by_email returned, or None
AfterSearch(L, r) ==
    LET found == IF Ok200(r) THEN r.body ELSE None
        tk == L.tk
    IN  CASE tk.at = "B1" ->
                IF found # None THEN Done(L, "Link", found.id)
                ELSE StartExport([L EXCEPT !.tk.op = "Create"], "B1")
          [] tk.at = "A1b" ->
                IF found # None
                THEN IF tk.exists /\ found.id # tk.lead.instantly_lead_id
                     THEN [L EXCEPT !.tk = Call([@ EXCEPT !.op = "Link",
                                                 !.newId = found.id], "del", "A1b_link")]
                     ELSE Done(L, "Link", found.id)
                ELSE IF tk.exists
                     THEN [L EXCEPT !.tk = Call([@ EXCEPT !.op = "Create"],
                                                "del", "A1b_create")]
                     ELSE StartExport([L EXCEPT !.tk.op = "Create"], "A1b")
          [] tk.at = "A1a_final" ->
                IF found # None THEN Done(L, "Link", found.id)
                ELSE Fail(L, "update_failed_create_failed")
          [] tk.at = "A1b_final" ->
                IF found # None THEN Done(L, "Link", found.id)
                ELSE Fail(L, "email_changed_create_failed")
          [] tk.at = "B1_err" ->
                IF found # None THEN Done(L, "Link", found.id)
                ELSE Fail(L, "create_failed")
          [] tk.at = "B1_skip" ->
                IF found # None THEN Done(L, "Link", found.id)
                ELSE Done(L, "Skip", None)

\* export_leads_to_instantly has returned (cnt, created, _, err) to line
\* 144, 174 or 208
AfterExport(L, created, err) ==
    IF Len(created) > 0
    THEN IF created[1] = Junk THEN Raise(L) ELSE Done(L, "Create", created[1])
    ELSE CASE L.tk.at = "A1a" -> [L EXCEPT !.tk = Call(@, "search", "A1a_final")]
           [] L.tk.at = "A1b" -> [L EXCEPT !.tk = Call(@, "search", "A1b_final")]
           [] L.tk.at = "B1" ->
                IF err THEN [L EXCEPT !.tk = Call(@, "search", "B1_err")]
                ELSE [L EXCEPT !.tk = Call(@, "search", "B1_skip")]

\* instantly.py lines 293-299: the result of ensure_campaign_variables is
\* not looked at
AfterVars(L, r) == [L EXCEPT !.tk = Call(@, "add1", L.tk.at)]

\* instantly.py lines 355-372 and 386-390: the first POST /leads/add
AfterAdd1(L, r) ==
    IF r.kind # "resp" THEN AfterExport(L, <<>>, TRUE)
    ELSE IF r.status = 200 THEN AfterExport(L, r.body, FALSE)
    ELSE [L EXCEPT !.tk = Call([@ EXCEPT !.err1 = TRUE], "add2", L.tk.at)]

\* instantly.py lines 372-390: the POST without custom_variables
AfterAdd2(L, r) ==
    IF Ok200(r) THEN AfterExport(L, r.body, TRUE) ELSE AfterExport(L, <<>>, TRUE)

(***************************************************************************)
(* sync_manager.py _process_bad_lead, lines 368-412.  Its outcome is       *)
(* [id, deleted, error]; error is whether an error text was returned.      *)
(***************************************************************************)
BadDone(L, deleted, error) ==
    [L EXCEPT !.tk = Returned(L.tk,
        [id |-> L.tk.lead.id, deleted |-> deleted, error |-> error])]

\* a variant without the fast path: the lead is looked up by email
BadEnter_AlwaysSearch(L) ==
    IF L.tk.email # None THEN [L EXCEPT !.tk = Call(@, "search", "bad")]
    ELSE BadDone(L, FALSE, FALSE)

\* lines 374-396, up to the first request
BadEnter(L) ==
    IF HasValidPointer(L.tk.lead) THEN [L EXCEPT !.tk = Call(@, "del", "bad_fast")]
    ELSE IF L.tk.email # None THEN [L EXCEPT !.tk = Call(@, "search", "bad")]
    ELSE BadDone(L, FALSE, FALSE)

\* lines 386-393 and 400-404
AfterBadDelete(L, r) ==
    IF DeleteOk(r) THEN BadDone(L, TRUE, FALSE)
    ELSE IF L.tk.at = "bad_fast" /\ SaysNotFound(r) THEN BadDone(L, FALSE, FALSE)
    ELSE BadDone(L, FALSE, TRUE)

\* lines 396-406
AfterBadSearch(L, r) ==
    IF Ok200(r) /\ r.body # None
    THEN [L EXCEPT !.tk = Call([@ EXCEPT !.newId = r.body.id], "del", "bad_slow")]
    ELSE BadDone(L, FALSE, ~Ok200(r))

(***************************************************************************)
(* The worker steps.  Receive hands the answer of one HTTP attempt to      *)
(* _request_with_retry and, when that returns or raises, to the code that  *)
(* called the client function.                                             *)
(***************************************************************************)
Local(t) == [tk |-> task[t], cache |-> cache, loaded |-> loaded, lock |-> lock,
             varsReg |-> varsReg]

After(L, r) ==
    CASE L.tk.pc = "list" -> AfterList(L, r)
      [] L.tk.pc = "create" -> AfterCreate(L, r)
      [] L.tk.pc = "get" -> AfterGet(L, r)
      [] L.tk.pc = "patch" -> AfterPatch(L, r)
      [] L.tk.pc = "del" ->
            IF L.tk.kind = "bad" THEN AfterBadDelete(L, r) ELSE AfterDelete(L, r)
      [] L.tk.pc = "search" ->
            IF L.tk.kind = "bad" THEN AfterBadSearch(L, r) ELSE AfterSearch(L, r)
      [] L.tk.pc = "vars" -> AfterVars(L, r)
      [] L.tk.pc = "add1" -> AfterAdd1(L, r)
      [] L.tk.pc = "add2" -> AfterAdd2(L, r)

\* the worker's new local state; a finished task's outcome is collected by
\* `for future in as_completed(futures)` (lines 278-280 and 459-463)
Commit(t, L) ==
    /\ task' = [task EXCEPT ![t] = L.tk]
    /\ cache' = L.cache
    /\ loaded' = L.loaded
    /\ lock' = L.lock
    /\ varsReg' = L.varsReg
    /\ run' = IF L.tk.pc = "done" THEN [run EXCEPT !.results = Append(@, L.tk.res)]
              ELSE run
    /\ UNCHANGED <<cfg, ds, clock>>

Receive(t, r) ==
    LET tk == task[t]
        step == RetryStep(tk.attempt, cfg.retries, tk.lastExc, r)
    IN  IF step.next = "sleep"
        THEN Commit(t, [Local(t) EXCEPT !.tk = [tk EXCEPT !.sleeping = TRUE,
                                   !.wait = step.wait, !.lastExc = step.lastExc]])
        ELSE Commit(t, After(Local(t), step.result))

Sending(t, pc) == t \in DOMAIN task /\ task[t].pc = pc /\ ~task[t].sleeping

\* answers that leave the platform as it was: 429, a 5xx, a 4xx, and a
\* network error
AllFailures(retry_after) ==
    {Resp429(ra) : ra \in retry_after}
        \cup {Resp(500, ErrBody(FALSE)), Resp(400, ErrBody(FALSE)), Exc}

Failures == cfg.failures

\* the history of requests is kept where the claims read it
Log(t, op, arg) ==
    reqs' = IF cfg.log THEN reqs \cup {[lead |-> t, op |-> op, arg |-> arg]} ELSE reqs

\* the shapes the body of a 200 may have: the one the client expects, and
\* on a platform that may answer anything, one that is not a mapping
Shapes(body) == IF cfg.malformed THEN {body, Junk} ELSE {body}

\* the request fails without reaching the platform's state
Refused(t) == \E r \in Failures : UNCHANGED platform /\ Receive(t, r)

\* the answer reaches the client, or is lost on the way back (a timeout)
Served(t, r) ==
    \E seen \in (IF cfg.lossy THEN BOOLEAN ELSE {TRUE}) :
        Receive(t, IF seen THEN r ELSE Exc)

\* custom_variables: the empty values are dropped, `or None` when none is
\* left (sync_manager.py lines 50-60 and 69; instantly.py lines 314-341)
CustomVariables(lead) ==
    LET v == sanitize_for_json(lead.postal_code)
    IN  IF v = None \/ (IsStr(v) /\ v.s = "" /\ ~v.pad) THEN None ELSE [postalCode |-> v]

\* sync_manager.py _build_patch_payload, lines 43-70
build_patch_payload(tk) ==
    [email |-> tk.email, custom_variables |-> CustomVariables(tk.lead)]

\* a variant whose payload says skip_if_in_campaign = false
ExportPayload_NoSkip(tk, stripped) ==
    [campaign_id |-> tk.cid, skip_if_in_campaign |-> FALSE, email |-> tk.email,
     custom_variables |-> IF stripped THEN None ELSE CustomVariables(tk.lead)]

\* instantly.py lines 331-346 and 370-371: the bulk-add payload, and the
\* one of the second attempt with custom_variables=None
ExportPayload(tk, stripped) ==
    [campaign_id |-> tk.cid, skip_if_in_campaign |-> TRUE, email |-> tk.email,
     custom_variables |-> IF stripped THEN None ELSE CustomVariables(tk.lead)]

DeleteTarget(tk) == IF tk.at = "bad_slow" THEN tk.newId ELSE tk.lead.instantly_lead_id

Active == {t \in DOMAIN task : task[t].pc \notin {"queued", "done"}}

\* a submitted task runs once a worker of the pool is free
WorkerFree == Cardinality(Active) < MaxWorkers

\* _process_single_lead lines 84-107 and find_or_create_instantly_campaign
\* lines 214-251: the worker takes _campaign_cache_lock
BeginLead(t) ==
    /\ t \in DOMAIN task /\ task[t].pc = "queued" /\ task[t].kind = "lead"
    /\ WorkerFree
    /\ lock = 0
    /\ Commit(t, FindOrCreateEnter(Local(t), t))
    /\ UNCHANGED <<platform, reqs, posts>>

\* _process_bad_lead lines 374-396
BeginBad(t) ==
    /\ t \in DOMAIN task /\ task[t].pc = "queued" /\ task[t].kind = "bad"
    /\ WorkerFree
    /\ Commit(t, BadEnter(Local(t)))
    /\ UNCHANGED <<platform, reqs, posts>>

\* GET /campaigns?limit=&skip=
ListCampaignsAttempt(t) ==
    /\ Sending(t, "list")
    /\ Log(t, "list", None)
    /\ UNCHANGED posts
    /\ \/ /\ UNCHANGED platform
          /\ Receive(t, Resp(200, SubSeq(campaigns, task[t].skip + 1,
                                  Min(task[t].skip + PageLimit, Len(campaigns)))))
       \/ Refused(t)

\* POST /campaigns
CreateCampaignAttempt(t) ==
    /\ Sending(t, "create")
    /\ Log(t, "create", None)
    /\ posts' = [posts EXCEPT ![task[t].name] = @ + 1]
    /\ \/ /\ campaigns' = Append(campaigns, [name |-> task[t].name, id |-> CampId(nextId)])
          /\ nextId' = nextId + 1
          /\ UNCHANGED rleads
          /\ Served(t, Resp(200, CampId(nextId)))
       \/ Refused(t)

\* what a client function returns for a lead_id that is missing or not a
\* UUID: an error text, without a request (instantly.py lines 397-401,
\* 428-432, 459-463)
InvalidId == [kind |-> "invalid"]

Rejected(t) ==
    /\ UNCHANGED <<platform, reqs>>
    /\ Commit(t, After(Local(t), InvalidId))

\* get_lead_from_instantly: GET /leads/{id}
GetLeadAttempt(t) ==
    /\ Sending(t, "get")
    /\ UNCHANGED posts
    /\ LET id == task[t].lead.instantly_lead_id
       IN  IF ~is_valid_uuid(id) THEN Rejected(t)
           ELSE /\ Log(t, "get", id)
                /\ \/ /\ UNCHANGED platform
                      /\ IF RemoteHas(id)
                         THEN \E body \in Shapes([email |-> RemoteLead(id).email]) :
                                 Receive(t, Resp(200, body))
                         ELSE Receive(t, Resp(404, ErrBody(TRUE)))
                   \/ Refused(t)

\* update_lead_in_instantly: PATCH /leads/{id}
PatchLeadAttempt(t) ==
    /\ Sending(t, "patch")
    /\ UNCHANGED posts
    /\ LET id == task[t].lead.instantly_lead_id
           payload == build_patch_payload(task[t])
       IN  IF ~is_valid_uuid(id) THEN Rejected(t)
           ELSE /\ Log(t, "patch", [id |-> id, payload |-> payload])
                /\ \/ /\ rleads' = {IF l.id = id THEN [l EXCEPT !.email = payload.email]
                                      ELSE l : l \in rleads}
                      /\ UNCHANGED <<campaigns, nextId>>
                      /\ Served(t, IF RemoteHas(id) THEN Resp(200, payload)
                                   ELSE Resp(404, ErrBody(TRUE)))
                   \/ Refused(t)

\* delete_lead_from_instantly: DELETE /leads/{id}
DeleteLeadAttempt(t) ==
    /\ Sending(t, "del")
    /\ UNCHANGED posts
    /\ LET id == DeleteTarget(task[t])
       IN  IF ~is_valid_uuid(id) THEN Rejected(t)
           ELSE /\ Log(t, "delete", id)
                /\ \/ /\ rleads' = {l \in rleads : l.id # id}
                      /\ UNCHANGED <<campaigns, nextId>>
                      /\ \E nf \in cfg.nf_texts :
                            Served(t, IF RemoteHas(id) THEN Resp(200, ErrBody(FALSE))
                                      ELSE Resp(404, ErrBody(nf)))
                   \/ Refused(t)

\* search_lead_by_email(api_key, email, campaign_id=...)
SearchLeadAttempt(t) ==
    /\ Sending(t, "search")
    /\ Log(t, "search", None)
    /\ UNCHANGED posts
    /\ \/ /\ UNCHANGED platform
          /\ LET m == Matches(task[t].email,
                              IF task[t].kind = "bad" THEN None ELSE task[t].cid)
             IN  IF m = {} THEN Receive(t, Resp(200, None))
                 ELSE \E l \in m : Receive(t, Resp(200, l))
       \/ Refused(t)

\* POST /campaigns/{id}/variables
RegisterVariablesAttempt(t) ==
    /\ Sending(t, "vars")
    /\ Log(t, "vars", None)
    /\ UNCHANGED posts
    /\ \/ UNCHANGED platform /\ Receive(t, Resp(200, None))
       \/ Refused(t)

\* POST /leads/add
BulkAddAttempt(t) ==
    /\ t \in DOMAIN task /\ task[t].pc \in {"add1", "add2"} /\ ~task[t].sleeping
    /\ LET payload == ExportPayload(task[t], task[t].pc = "add2")
       IN  /\ Log(t, "add", payload)
           /\ UNCHANGED posts
           /\ \/ IF AddCreates(payload)
                 THEN /\ rleads' = rleads \cup {NewLead(payload)}
                      /\ nextId' = nextId + 1
                      /\ UNCHANGED campaigns
                      /\ \E item \in Shapes(Uuid(nextId)) :
                            Served(t, Resp(200, <<item>>))
                 ELSE /\ UNCHANGED platform
                      /\ Served(t, Resp(200, <<>>))
              \/ Refused(t)

\* time.sleep() returns: the next attempt, or the lines after the loop
Wake(t) ==
    /\ t \in DOMAIN task /\ task[t].sleeping
    /\ LET tk == task[t]
           step == AfterSleep(tk.attempt, cfg.retries, tk.lastExc)
       IN  IF step.next = "send"
           THEN Commit(t, [Local(t) EXCEPT !.tk = [tk EXCEPT !.sleeping = FALSE,
                                                  !.attempt = @ + 1]])
           ELSE Commit(t, After([Local(t) EXCEPT !.tk.sleeping = FALSE], step.result))
    /\ UNCHANGED <<platform, reqs, posts>>

(***************************************************************************)
(* The datastore.  A lead is pending when it was modified after its last   *)
(* sync (spec.md section 3; 0 stands for an absent timestamp).             *)
(***************************************************************************)
IsPending(rec) ==
    rec.last_modified_at > 0
        /\ (rec.last_synced_at = 0 \/ rec.last_modified_at > rec.last_synced_at)

Txt(s) == Str(s, FALSE, FALSE)

\* the records of S, in the order of the table
InOrder(S) ==
    LET RECURSIVE From(_)
        From(i) == IF i > Max(DOMAIN ds) THEN <<>>
                   ELSE IF i \in S THEN <<i>> \o From(i + 1) ELSE From(i + 1)
    IN  From(1)

Range(s) == {s[i] : i \in 1..Len(s)}

\* airtable_utils.py batch_update_leads: each update overwrites the fields
\* it names
ApplyUpdate(rec, fields) ==
    [f \in DOMAIN rec |-> IF f \in DOMAIN fields THEN fields[f] ELSE rec[f]]

RECURSIVE ApplyBatch(_, _)
ApplyBatch(d, batch) ==
    IF batch = <<>> THEN d
    ELSE ApplyBatch([d EXCEPT ![batch[1].id] = ApplyUpdate(@, batch[1].fields)],
                    Tail(batch))

\* what batch_update_leads returns: True, or False when the write failed
BatchAnswers == IF cfg.ds_fails THEN BOOLEAN ELSE {TRUE}

(***************************************************************************)
(* sync_manager.py sync_pending_leads, lines 243-360.                      *)
(***************************************************************************)
\* a variant that hands every pending record to the workers
Cap_All(records, max_records) == records

\* lines 258-262: if max_records and total_all > max_records
Cap(records, max_records) ==
    IF max_records # 0 /\ Len(records) > max_records
    THEN SubSeq(records, 1, max_records) ELSE records

Skipped(records, max_records) ==
    IF max_records # 0 /\ Len(records) > max_records
    THEN Len(records) - max_records ELSE 0

NewTask(rec, kind) ==
    [kind |-> kind, pc |-> "queued", at |-> "", lead |-> rec,
     email |-> NormEmail(rec.key_contact_email), name |-> CampNameOf(rec),
     cid |-> None, attempt |-> 0, lastExc |-> FALSE, sleeping |-> FALSE,
     wait |-> 0, skip |-> 0, page |-> 0, acc |-> <<>>, exists |-> FALSE,
     op |-> "", newId |-> None, err1 |-> FALSE, res |-> None]

\* a variant that advances last_synced_at whatever the outcome
UpdateFor_AlwaysSynced(res, now) ==
    [id |-> res.id,
     fields |-> [last_synced_at |-> now,
                 instantly_statuts |-> Txt(IF res.status = "Success" THEN "Success"
                                           ELSE "Failed")]]

\* a variant whose update of a successful outcome leaves the pointer alone
UpdateFor_NoPointer(res, now) ==
    IF res.status = "Success"
    THEN [id |-> res.id,
          fields |-> [last_synced_at |-> now,
                      instantly_statuts |->
                          IF res.op \in {"Create", "Update", "Link"}
                          THEN Txt("Success") ELSE None,
                      instantly_campaign_id |-> res.campaign_id]]
    ELSE [id |-> res.id, fields |-> [instantly_statuts |-> Txt("Failed")]]

\* lines 297-330: the datastore update of one outcome
UpdateFor(res, now) ==
    IF res.status = "Success"
    THEN [id |-> res.id,
          fields |-> [last_synced_at |-> now,
                      instantly_statuts |->
                          IF res.op \in {"Create", "Update", "Link"}
                          THEN Txt("Success") ELSE None,
                      instantly_lead_id |-> res.new_instantly_id,
                      instantly_campaign_id |-> res.campaign_id]]
    ELSE [id |-> res.id, fields |-> [instantly_statuts |-> Txt("Failed")]]

BuildUpdates(results, now) == [i \in 1..Len(results) |-> UpdateFor(results[i], now)]

CountStatus(results, status) ==
    Cardinality({i \in 1..Len(results) : results[i].status = status})

\* lines 352-360, and line 346 when the datastore write failed
\* a variant that counts every outcome as a success
SyncReport_CountsAll(results, skipped, ok) ==
    IF ok THEN [error |-> FALSE, count |-> Len(results),
                failures |-> CountStatus(results, "Failed"), skipped |-> skipped]
    ELSE [error |-> TRUE]

SyncReport(results, skipped, ok) ==
    IF ok THEN [error |-> FALSE, count |-> CountStatus(results, "Success"),
                failures |-> CountStatus(results, "Failed"), skipped |-> skipped]
    ELSE [error |-> TRUE]

AllDone == \A t \in DOMAIN task : task[t].pc = "done"

NoRun(n) ==
    [pc |-> "idle", n |-> n, mode |-> "", now |-> 0, snap |-> <<>>, skipped |-> 0,
     vres |-> <<>>, toVerify |-> {}, good |-> <<>>, bad |-> <<>>, goodApi |-> <<>>,
     results |-> <<>>, syncResults |-> <<>>, syncBatch |-> <<>>, syncOk |-> "none",
     badResults |-> <<>>, badBatch |-> <<>>, badOk |-> "none",
     mvBatch |-> <<>>, mvOk |-> "none", report |-> None]

\* lines 252-277: reset_campaign_cache(), the cap, and one task per record
EnterSync(r, records) ==
    /\ cache' = <<>>
    /\ loaded' = FALSE
    /\ UNCHANGED <<lock, varsReg>>
    /\ task' = [i \in Range(Cap(records, cfg.max_records)) |-> NewTask(r.snap[i], "lead")]
    /\ run' = [r EXCEPT !.pc = "sync", !.results = <<>>,
                        !.skipped = IF r.mode = "plain"
                                    THEN Skipped(records, cfg.max_records) ELSE @]

\* cleanup_bad_leads lines 446-458: one task per bad lead
EnterCleanup(r) ==
    /\ task' = [i \in Range(r.bad) |-> NewTask(r.snap[i], "bad")]
    /\ run' = [r EXCEPT !.pc = "cleanup", !.results = <<>>]
    /\ UNCHANGED directory
    /\ UNCHANGED varsReg

\* the run returns its report
Return(r, report) ==
    /\ run' = [r EXCEPT !.pc = "idle", !.report = report, !.results = <<>>]
    /\ task' = <<>>
    /\ UNCHANGED directory
    /\ UNCHANGED varsReg

\* sync_with_verification lines 606-617, after the good leads
AfterGoodLeads(r) ==
    IF r.bad # <<>> THEN EnterCleanup(r)
    ELSE /\ run' = [r EXCEPT !.pc = "mv", !.results = <<>>]
         /\ task' = <<>>
         /\ UNCHANGED directory
         /\ UNCHANGED varsReg

\* the caller starts sync_pending_leads on the pending records
StartSync ==
    /\ run.pc = "idle" /\ run.n < MaxRuns /\ ~cfg.verify
    /\ clock' = clock + 1
    /\ reqs' = {}
    /\ posts' = [n \in DOMAIN posts |-> 0]
    /\ EnterSync([NoRun(run.n + 1) EXCEPT !.mode = "plain", !.now = clock + 1,
                                         !.snap = ds],
                 InOrder({i \in DOMAIN ds : IsPending(ds[i])}))
    /\ UNCHANGED <<cfg, platform, ds>>

\* lines 292-360: all outcomes are in; the batch update and the report
FinishSync ==
    /\ run.pc = "sync" /\ AllDone
    /\ \A t \in DOMAIN task : task[t].res.status # "Raised"
    /\ LET updates == BuildUpdates(run.results, run.now)
       IN  \E ok \in (IF updates = <<>> THEN {TRUE} ELSE BatchAnswers) :
             LET r == [run EXCEPT !.syncResults = run.results, !.syncBatch = updates,
                                  !.syncOk = IF updates = <<>> THEN "none"
                                             ELSE IF ok THEN "ok" ELSE "failed"]
                 report == SyncReport(run.results, run.skipped, ok)
             IN  /\ ds' = IF ok THEN ApplyBatch(ds, updates) ELSE ds
                 /\ IF r.mode = "plain" \/ ~ok THEN Return(r, report)
                    ELSE AfterGoodLeads([r EXCEPT !.report = report])
    /\ UNCHANGED <<cfg, platform, clock, reqs, posts>>

\* line 279: future.result() raises what the worker raised; the executor
\* waits for the other workers and sync_pending_leads ends with the
\* exception, before any datastore update and without a report
Propagate ==
    /\ run.pc = "sync" /\ AllDone
    /\ \E t \in DOMAIN task : task[t].res.status = "Raised"
    /\ Return([run EXCEPT !.syncResults = run.results], [error |-> TRUE, raised |-> TRUE])
    /\ UNCHANGED <<cfg, platform, ds, clock, reqs, posts>>

(***************************************************************************)
(* millionverifier.py verify_pending_leads, lines 72-152, and              *)
(* sync_manager.py sync_with_verification, lines 515-659.                  *)
(***************************************************************************)
\* line 109: existing_status and isinstance(existing_status, str) and
\* existing_status.strip()
\* a variant that verifies every record again
IsTrusted_Never(rec) == FALSE

IsTrusted(rec) ==
    LET existing_status == rec.verification_status
    IN  Truthy(existing_status) /\ IsStr(existing_status) /\ Strip(existing_status).s # ""

\* lines 107-137: the first pass, and the records of the second that have
\* no email
FirstVerdict(rec) ==
    IF IsTrusted(rec)
    THEN [status |-> normalize_status(rec.verification_status), api |-> FALSE, open |-> FALSE]
    ELSE IF NormEmail(rec.key_contact_email) = None
    THEN [status |-> "unknown", api |-> TRUE, open |-> FALSE]
    ELSE [status |-> "", api |-> FALSE, open |-> TRUE]

\* the caller starts sync_with_verification on the pending records
StartVerifiedSync ==
    /\ run.pc = "idle" /\ run.n < MaxRuns /\ cfg.verify
    /\ clock' = clock + 1
    /\ reqs' = {}
    /\ posts' = [n \in DOMAIN posts |-> 0]
    /\ LET pending == InOrder({i \in DOMAIN ds : IsPending(ds[i])})
           recs == Cap(pending, cfg.max_records)
           v == [i \in Range(recs) |-> FirstVerdict(ds[i])]
       IN  run' = [NoRun(run.n + 1) EXCEPT !.mode = "verify", !.pc = "verify",
                      !.now = clock + 1, !.snap = ds,
                      !.skipped = Skipped(pending, cfg.max_records),
                      !.vres = [i \in Range(recs) |-> [status |-> v[i].status, api |-> v[i].api]],
                      !.toVerify = {i \in Range(recs) : v[i].open}]
    /\ task' = <<>>
    /\ UNCHANGED <<cfg, platform, directory, varsReg, ds>>

\* the status verify_single_email returns for an answer: a 200 carries
\* data["result"]; anything else is unknown
VerdictOf(answer) == IF answer.k = "fail" THEN "unknown" ELSE normalize_status(answer)

\* verify_single_email in the pool, and lines 140-150 that store its result
VerifySingleEmail(i) ==
    /\ run.pc = "verify" /\ i \in run.toVerify
    /\ \E answer \in cfg.verify_answers :
          run' = [run EXCEPT !.toVerify = @ \ {i},
                      !.vres[i] = [status |-> normalize_status(Txt(VerdictOf(answer))),
                                   api |-> TRUE]]
    /\ Log(i, "verify", None)
    /\ UNCHANGED <<cfg, platform, directory, varsReg, ds, clock, task, posts>>

\* a variant that takes every status as good
IsGood_All(status) == TRUE

\* line 575: v_status in GOOD_STATUSES
IsGood(status) == status \in GOOD_STATUSES

\* lines 569-617: the split, then the good leads or the bad ones
SplitGoodBad ==
    /\ run.pc = "verify" /\ run.toVerify = {}
    /\ LET recs == InOrder(DOMAIN run.vres)
           good == SelectSeq(recs, LAMBDA i : IsGood(run.vres[i].status))
           bad == SelectSeq(recs, LAMBDA i : ~IsGood(run.vres[i].status))
           r == [run EXCEPT !.good = good, !.bad = bad,
                     !.goodApi = SelectSeq(good, LAMBDA i : run.vres[i].api)]
       IN  IF good # <<>> THEN EnterSync(r, good)
           ELSE AfterGoodLeads([r EXCEPT !.report = [error |-> FALSE, count |-> 0,
                                                    failures |-> 0, skipped |-> 0]])
    /\ UNCHANGED <<cfg, platform, ds, clock, reqs, posts>>

\* cleanup_bad_leads lines 471-485: the update of one bad lead
BadUpdateFor(res, v_status, now) ==
    [id |-> res.id,
     fields |-> [verification_status |-> Txt(v_status), last_synced_at |-> now,
                 instantly_lead_id |-> None, instantly_campaign_id |-> None,
                 instantly_statuts |-> Txt("Blocked")]]

\* cleanup_bad_leads lines 465-512: the batch update, whose failure is only
\* written to the status widget
FinishCleanup ==
    /\ run.pc = "cleanup" /\ AllDone
    /\ LET updates == [i \in 1..Len(run.results) |->
                          BadUpdateFor(run.results[i], run.vres[run.results[i].id].status,
                                       run.now)]
       IN  \E ok \in BatchAnswers :
             /\ ds' = IF ok THEN ApplyBatch(ds, updates) ELSE ds
             /\ run' = [run EXCEPT !.pc = "mv", !.badResults = run.results,
                            !.results = <<>>, !.badBatch = updates,
                            !.badOk = IF ok THEN "ok" ELSE "failed"]
    /\ task' = <<>>
    /\ UNCHANGED <<cfg, platform, directory, varsReg, clock, reqs, posts>>

\* sync_with_verification lines 619-659: verification_status of the newly
\* verified good leads, and the merged report
FinishVerifiedSync ==
    /\ run.pc = "mv"
    /\ LET updates == [i \in 1..Len(run.goodApi) |->
                          [id |-> run.goodApi[i],
                           fields |-> [verification_status |-> Txt("ok")]]]
       IN  \E ok \in (IF updates = <<>> THEN {TRUE} ELSE BatchAnswers) :
             /\ ds' = IF ok THEN ApplyBatch(ds, updates) ELSE ds
             /\ Return([run EXCEPT !.mvBatch = updates,
                            !.mvOk = IF updates = <<>> THEN "none"
                                     ELSE IF ok THEN "ok" ELSE "failed"],
                       [error |-> FALSE, count |-> run.report.count,
                        failures |-> run.report.failures, skipped |-> run.skipped,
                        blocked |-> Len(run.bad)])
    /\ UNCHANGED <<cfg, platform, clock, reqs, posts>>

(***************************************************************************)
(* Initial states: the records of the table, all pending, and a platform   *)
(* that holds some campaigns and leads already.                            *)
(***************************************************************************)
Generic == "Generic - Cold Outreach"
Shops == "Shops - Cold Outreach"

LeadRec(i, ptr, mark, email, industry, postal, vstatus) ==
    [id |-> i, instantly_lead_id |-> ptr, instantly_campaign_id |-> None,
     instantly_statuts |-> None, key_contact_email |-> email,
     email_available |-> mark, industry |-> industry, postal_code |-> postal,
     verification_status |-> vstatus, last_modified_at |-> 1, last_synced_at |-> 0]

\* a platform is well formed when an identifier names one lead, a campaign
\* holds an email once, and every lead is in a campaign that exists
DuplicateFree(ls) ==
    \A l1, l2 \in ls :
        (l1.camp = l2.camp /\ Lower(l1.email) = Lower(l2.email)) => l1 = l2

WellFormed(cs, ls) ==
    /\ \A l1, l2 \in ls : l1.id = l2.id => l1 = l2
    /\ DuplicateFree(ls)
    /\ \A l \in ls : \E i \in 1..Len(cs) : cs[i].id = l.camp

InitPlatform(Campaigns, Leads) ==
    /\ campaigns \in Campaigns
    /\ rleads \in SUBSET Leads
    /\ WellFormed(campaigns, rleads)
    /\ nextId = 10

InitRest(c) ==
    /\ cfg = c
    /\ cache = <<>>
    /\ loaded = FALSE
    /\ lock = 0
    /\ varsReg = {}
    /\ clock = 1
    /\ run = NoRun(0)
    /\ task = <<>>
    /\ reqs = {}
    /\ posts = [n \in {Generic, Shops} |-> 0]

(***************************************************************************)
(* Spec: sync_pending_leads, run after run, on one record of any shape.    *)
(***************************************************************************)
PlainCfg == [verify |-> FALSE, max_records |-> 5000, retries |-> Retries,
             failures |-> AllFailures({None}), lossy |-> TRUE, log |-> TRUE,
             malformed |-> FALSE, ds_fails |-> TRUE, nf_texts |-> BOOLEAN,
     verify_answers |-> {}]

Init ==
    /\ InitRest(PlainCfg)
    /\ InitPlatform({<<>>, <<[name |-> Generic, id |-> CampId(1)]>>,
                     <<[name |-> Generic, id |-> CampId(1)],
                       [name |-> Shops, id |-> CampId(2)]>>},
                    {[id |-> Uuid(1), email |-> Str("a", TRUE, FALSE), camp |-> CampId(1)],
                     [id |-> Uuid(1), email |-> Txt("b"), camp |-> CampId(1)],
                     [id |-> Uuid(3), email |-> Txt("a"), camp |-> CampId(1)],
                     [id |-> Uuid(3), email |-> Txt("a"), camp |-> CampId(2)]})
    /\ ds \in [{1} -> {LeadRec(1, ptr, mark, email, industry, postal, None) :
                 ptr \in {None, NotAUuid, Uuid(1)}, mark \in {"1", "0"},
                 email \in {None, Txt("a"), Str("a", TRUE, TRUE)},
                 industry \in {None, Txt("Shops")},
                 postal \in {NaN, Txt("75001")}}]

Next ==
    \/ StartSync
    \/ \E t \in DOMAIN task : BeginLead(t)
    \/ \E t \in DOMAIN task : ListCampaignsAttempt(t)
    \/ \E t \in DOMAIN task : CreateCampaignAttempt(t)
    \/ \E t \in DOMAIN task : GetLeadAttempt(t)
    \/ \E t \in DOMAIN task : PatchLeadAttempt(t)
    \/ \E t \in DOMAIN task : DeleteLeadAttempt(t)
    \/ \E t \in DOMAIN task : SearchLeadAttempt(t)
    \/ \E t \in DOMAIN task : RegisterVariablesAttempt(t)
    \/ \E t \in DOMAIN task : BulkAddAttempt(t)
    \/ \E t \in DOMAIN task : Wake(t)
    \/ FinishSync

Spec == Init /\ [][Next]_vars

(***************************************************************************)
(* SpecPar: one run of sync_pending_leads on two records handled by two    *)
(* workers at once, and the runs that follow it.                           *)
(***************************************************************************)
ParCfg == [verify |-> FALSE, max_records |-> 5000, retries |-> 0,
           failures |-> {Resp429(None), Resp(400, ErrBody(FALSE)), Exc},
           lossy |-> TRUE, log |-> FALSE, malformed |-> FALSE, ds_fails |-> TRUE, nf_texts |-> BOOLEAN,
     verify_answers |-> {}]

InitPar ==
    /\ InitRest(ParCfg)
    /\ InitPlatform({<<>>, <<[name |-> Generic, id |-> CampId(1)]>>},
                    {[id |-> Uuid(1), email |-> Txt("a"), camp |-> CampId(1)],
                     [id |-> Uuid(3), email |-> Txt("b"), camp |-> CampId(1)]})
    /\ \E ptr \in {None, Uuid(1)}, email \in {Txt("a"), Txt("b")} :
          ds = <<LeadRec(1, ptr, "1", email, None, Txt("75001"), None),
                 LeadRec(2, None, "1", Txt("a"), None, Txt("75001"), None)>>

SpecPar == InitPar /\ [][Next]_vars

(***************************************************************************)
(* SpecRes: three workers of one run call                                  *)
(* find_or_create_instantly_campaign at once for a name the platform does  *)
(* not hold, on a network that answers every request or on one that may    *)
(* fail.  The run is followed up to the return of each call.               *)
(***************************************************************************)
ResCfg(faulty) ==
    [verify |-> FALSE, max_records |-> 5000, retries |-> Retries,
     failures |-> IF faulty THEN {Resp(500, ErrBody(FALSE)), Exc} ELSE {},
     lossy |-> faulty, log |-> TRUE, malformed |-> FALSE, ds_fails |-> TRUE, nf_texts |-> BOOLEAN,
     verify_answers |-> {}]

InitRes ==
    /\ \E faulty \in BOOLEAN : InitRest(ResCfg(faulty))
    /\ InitPlatform({<<>>, <<[name |-> Shops, id |-> CampId(2)]>>}, {})
    /\ ds = [i \in 1..3 |-> LeadRec(i, None, "1", Txt("a"), None, NaN, None)]

NextRes ==
    \/ StartSync
    \/ \E t \in DOMAIN task : BeginLead(t)
    \/ \E t \in DOMAIN task : ListCampaignsAttempt(t)
    \/ \E t \in DOMAIN task : CreateCampaignAttempt(t)
    \/ \E t \in DOMAIN task : Wake(t)

SpecRes == InitRes /\ [][NextRes]_vars

\* the network answers every request with what the platform did
Quiet == cfg.failures = {} /\ ~cfg.lossy

\* the call of worker t has returned
HasResolved(t) == task[t].pc \notin {"queued", "list", "create"}

AllResolved == task # <<>> /\ \A t \in DOMAIN task : HasResolved(t)

\* the identifier the call of worker t returned: a worker that got None
\* ends at once with the outcome no_campaign
Received(t) == IF task[t].pc = "done" THEN None ELSE task[t].cid

VerifyAnswers == {Txt("ok"), Txt("invalid"), [k |-> "fail"]}

VerCfg == [verify |-> TRUE, max_records |-> 5000, retries |-> 0,
           failures |-> {Resp429(None), Exc},
           lossy |-> FALSE, log |-> TRUE, malformed |-> FALSE, ds_fails |-> TRUE, nf_texts |-> BOOLEAN,
     verify_answers |-> VerifyAnswers]

InitVer ==
    /\ InitRest(VerCfg)
    /\ InitPlatform({<<>>, <<[name |-> Generic, id |-> CampId(1)]>>},
                    {[id |-> Uuid(1), email |-> Txt("a"), camp |-> CampId(1)]})
    /\ \E ptr \in {None, Uuid(1)}, email \in {None, Txt("a")},
          vstatus \in {None, Txt("ok"), Str("ok", TRUE, TRUE), Txt("invalid"),
                       Txt("weird"), Str("", FALSE, TRUE)} :
          ds = <<LeadRec(1, ptr, "1", email, None, Txt("75001"), vstatus),
                 LeadRec(2, None, "1", Txt("b"), None, NaN, None)>>

NextVer ==
    \/ StartVerifiedSync
    \/ \E i \in DOMAIN ds : VerifySingleEmail(i)
    \/ SplitGoodBad
    \/ \E t \in DOMAIN task : BeginLead(t)
    \/ \E t \in DOMAIN task : BeginBad(t)
    \/ \E t \in DOMAIN task : ListCampaignsAttempt(t)
    \/ \E t \in DOMAIN task : CreateCampaignAttempt(t)
    \/ \E t \in DOMAIN task : GetLeadAttempt(t)
    \/ \E t \in DOMAIN task : PatchLeadAttempt(t)
    \/ \E t \in DOMAIN task : DeleteLeadAttempt(t)
    \/ \E t \in DOMAIN task : SearchLeadAttempt(t)
    \/ \E t \in DOMAIN task : RegisterVariablesAttempt(t)
    \/ \E t \in DOMAIN task : BulkAddAttempt(t)
    \/ \E t \in DOMAIN task : Wake(t)
    \/ FinishSync
    \/ FinishCleanup
    \/ FinishVerifiedSync

SpecVer == InitVer /\ [][NextVer]_vars

(***************************************************************************)
(* Properties.  Delivered(t, r) holds of the step in which                 *)
(* _request_with_retry hands the answer r (a response it returns or an     *)
(* exception it raises) to the client function worker t is in.             *)
(***************************************************************************)
Delivered(t, r) ==
    LET tk == task[t]
    IN  IF tk.sleeping
        THEN /\ AfterSleep(tk.attempt, cfg.retries, tk.lastExc) =
                    [next |-> "raise", result |-> r]
             /\ task' = [task EXCEPT
                            ![t] = After([Local(t) EXCEPT !.tk.sleeping = FALSE], r).tk]
        ELSE /\ r.kind \in {"resp", "exc"}
             /\ RetryStep(tk.attempt, cfg.retries, tk.lastExc, r).next # "sleep"
             /\ RetryStep(tk.attempt, cfg.retries, tk.lastExc, r).result = r
             /\ task' = [task EXCEPT ![t] = After(Local(t), r).tk]

\* what a failed request ends with: a status that is not 200, or an exception
FailedAnswers == {Resp(500, ErrBody(FALSE)), Resp(400, ErrBody(FALSE)), Exc, LoopEnded}

RequestsOf(R, t, ops) == {q \in R : q.lead = t /\ q.op \in ops}

\* the outcomes of sync_pending_leads with the given operation, as indices
\* of the batch
OutcomesWith(op) ==
    {i \in 1..Len(run.syncResults) :
        run.syncResults[i].status = "Success" /\ run.syncResults[i].op = op}

\* the run has returned after a datastore write that succeeded
Committed == run.pc = "idle" /\ run.syncOk = "ok"

\* C2: in sync_pending_leads the update of a lead whose outcome is not
\* Success holds instantly_statuts = "Failed" and nothing else (no
\* last_synced_at, no pointer), and the lead is still pending once the run
\* has returned.
C2_FailedStaysPending ==
    \A i \in 1..Len(run.syncBatch) :
        run.syncResults[i].status # "Success" =>
            /\ run.syncBatch[i].id = run.syncResults[i].id
            /\ run.syncBatch[i].fields = [instantly_statuts |-> Txt("Failed")]
            /\ run.pc = "idle" => IsPending(ds[run.syncResults[i].id])

C2_Witness ==
    /\ Committed
    /\ \E i \in 1..Len(run.syncBatch) :
          /\ run.syncResults[i].status = "Failed"
          /\ ds[run.syncResults[i].id].instantly_statuts = Txt("Failed")
          /\ IsPending(ds[run.syncResults[i].id])

\* C5: when the cache is not hydrated and a page of the campaign listing
\* ends in a status other than 200 or in an exception, the call returns no
\* identifier (the lead fails with no_campaign), no POST /campaigns is
\* sent, the cache keeps its contents and the loaded flag stays false.
C5_ListingFailureFailsClosed ==
    [][\A t \in DOMAIN task : \A r \in FailedAnswers :
          (task[t].pc = "list" /\ ~loaded /\ Delivered(t, r)) =>
              /\ task'[t].pc = "done"
              /\ task'[t].res = [id |-> t, status |-> "Failed", error |-> "no_campaign"]
              /\ RequestsOf(reqs', t, {"create"}) = {}
              /\ posts' = posts
              /\ cache' = cache
              /\ loaded' = FALSE
              /\ lock' = 0]_vars

C5_Witness ==
    /\ run.pc = "sync" /\ ~loaded /\ cache = <<>> /\ lock = 0
    /\ \E t \in DOMAIN task :
          /\ task[t].pc = "done"
          /\ task[t].res = [id |-> t, status |-> "Failed", error |-> "no_campaign"]
          /\ RequestsOf(reqs, t, {"list"}) # {}
          /\ RequestsOf(reqs, t, {"create"}) = {}

\* C4: over the runs of a session, with two workers handling records that
\* may share an email and with datastore writes that may fail after the
\* remote create, the platform never holds two campaign leads with the same
\* email in the same campaign.
C4_NoDuplicateLead == DuplicateFree(rleads)

\* a second run has linked both records, which share their email, to the one
\* campaign lead a run of this session created
C4_Witness ==
    /\ run.pc = "idle" /\ run.n = 2
    /\ ds[1].key_contact_email = ds[2].key_contact_email
    /\ ds[1].instantly_lead_id = ds[2].instantly_lead_id
    /\ \E l \in rleads : l.id = ds[1].instantly_lead_id /\ l.id.n >= 10
    /\ \A i \in DOMAIN ds : ~IsPending(ds[i])

\* the records the run classified bad, as indices of the bad-lead batch
BadOutcomes == 1..Len(run.badBatch)

\* C3, as the specification states it: an update of a batch holds
\* last_synced_at only if the remote operations for its lead ended without
\* error, and a bad lead whose delete or search ended with an error is
\* still pending after the run.
C3_SyncedOnlyWithoutError ==
    /\ \A i \in 1..Len(run.syncBatch) :
          "last_synced_at" \in DOMAIN run.syncBatch[i].fields =>
              run.syncResults[i].status = "Success"
    /\ \A i \in BadOutcomes :
          /\ "last_synced_at" \in DOMAIN run.badBatch[i].fields =>
                ~run.badResults[i].error
          /\ (run.pc = "idle" /\ run.badResults[i].error) =>
                IsPending(ds[run.badResults[i].id])

\* the run has returned: a bad lead whose delete ended with an error is no
\* longer pending, its pointer is cleared and the campaign lead is still
\* on the platform
C3_Witness ==
    /\ run.pc = "idle" /\ run.badOk = "ok"
    /\ \E i \in BadOutcomes :
          LET id == run.badResults[i].id
          IN  /\ run.badResults[i].error
              /\ HasValidPointer(run.snap[id])
              /\ RemoteHas(run.snap[id].instantly_lead_id)
              /\ ~IsPending(ds[id])
              /\ ds[id].instantly_lead_id = None

\* C6: in a run of sync_with_verification the reconciler is given only
\* records whose normalized verification status is ok, and no POST
\* /leads/add or PATCH /leads/{id} is sent for a record with any other
\* status.
C6_OnlyOkIsSynced ==
    run.mode = "verify" =>
        /\ \A t \in DOMAIN task :
              task[t].kind = "lead" => run.vres[t].status = "ok"
        /\ \A q \in reqs :
              q.op \in {"add", "patch"} => run.vres[q.lead].status = "ok"
        /\ \A i \in DOMAIN run.vres :
              (run.vres[i].status = "ok" /\ ~run.vres[i].api) =>
                  Lower(Strip(run.snap[i].verification_status)).s = "ok"

\* one run with a good record that was added and a bad one that was not
C6_Witness ==
    /\ run.mode = "verify" /\ run.pc = "idle"
    /\ \E g, b \in DOMAIN run.vres :
          /\ run.vres[g].status = "ok"
          /\ RequestsOf(reqs, g, {"add"}) # {}
          /\ run.vres[b].status \in {"invalid", "unknown"}
          /\ RequestsOf(reqs, b, {"search", "delete"}) # {}
          /\ RequestsOf(reqs, b, {"add", "patch"}) = {}

\* C7: a record whose stored verification_status is a text that is not
\* empty once trimmed causes no call of verify_single_email; its result is
\* the normalized stored status, with was_api_call false.
C7_StoredStatusIsTrusted ==
    run.mode = "verify" =>
        \A i \in DOMAIN run.vres :
            LET stored == run.snap[i].verification_status
            IN  (IsStr(stored) /\ stored.s # "") =>
                    /\ RequestsOf(reqs, i, {"verify"}) = {}
                    /\ run.vres[i] = [status |-> normalize_status(stored), api |-> FALSE]

\* " OK " is stored for one record, which is taken as ok without a call,
\* while the other record is verified by a call
C7_Witness ==
    /\ run.mode = "verify" /\ run.pc = "idle"
    /\ run.snap[1].verification_status = Str("ok", TRUE, TRUE)
    /\ run.vres[1] = [status |-> "ok", api |-> FALSE]
    /\ RequestsOf(reqs, 1, {"verify"}) = {}
    /\ RequestsOf(reqs, 2, {"verify"}) # {}

\* C8: for a record classified bad whose instantly_lead_id is a valid UUID,
\* cleanup sends DELETE /leads/{id} for that id and no other, and its update
\* sets instantly_lead_id and instantly_campaign_id to null and
\* instantly_statuts to "Blocked".
C8_BadLeadIsDeletedAndBlocked ==
    \A i \in BadOutcomes :
        LET id == run.badResults[i].id
            ptr == run.snap[id].instantly_lead_id
        IN  HasValidPointer(run.snap[id]) =>
                /\ \E q \in reqs : q.lead = id /\ q.op = "delete" /\ q.arg = ptr
                /\ \A q \in RequestsOf(reqs, id, {"delete"}) : q.arg = ptr
                /\ run.badBatch[i].id = id
                /\ run.badBatch[i].fields.instantly_lead_id = None
                /\ run.badBatch[i].fields.instantly_campaign_id = None
                /\ run.badBatch[i].fields.instantly_statuts = Txt("Blocked")

\* the run has returned: the campaign lead of an invalid record is gone
\* and the record is blocked, without pointer
C8_Witness ==
    /\ run.pc = "idle" /\ run.badOk = "ok"
    /\ \E i \in BadOutcomes :
          LET id == run.badResults[i].id
          IN  /\ run.vres[id].status = "invalid"
              /\ run.snap[id].instantly_lead_id = Uuid(1)
              /\ run.badResults[i].deleted
              /\ ~RemoteHas(Uuid(1))
              /\ ds[id].instantly_lead_id = None
              /\ ds[id].instantly_campaign_id = None
              /\ ds[id].instantly_statuts = Txt("Blocked")

\* the update sync_pending_leads builds for a successful outcome that holds
\* a campaign lead: Success, the outcome's identifiers, and the time of the run
LinkedUpdate(res) ==
    [id |-> res.id,
     fields |-> [last_synced_at |-> run.now, instantly_statuts |-> Txt("Success"),
                 instantly_lead_id |-> res.new_instantly_id,
                 instantly_campaign_id |-> res.campaign_id]]

\* the campaign of that name exists on the platform under that identifier
IsCampaignOf(cid, name) ==
    \E k \in 1..Len(campaigns) : campaigns[k].id = cid /\ campaigns[k].name = name

\* the step in which worker t, in branch B1 after a search that found no
\* lead, gets from POST /leads/add the one lead the platform created
CreatedSeen(t) ==
    /\ task[t].pc \in {"add1", "add2"} /\ task[t].at = "B1"
    /\ ~HasValidPointer(task[t].lead)
    /\ HasEmailMark(task[t].lead) /\ task[t].email # None
    /\ rleads' = rleads \cup {NewLead(ExportPayload(task[t], task[t].pc = "add2"))}
    /\ rleads' # rleads
    /\ Delivered(t, Resp(200, <<Uuid(nextId)>>))

\* C9: for a record without valid pointer, with the email mark and an
\* email, whose search found nothing and whose bulk-add returned one
\* created lead, the outcome is Create with the new identifier and the
\* resolved campaign, and its update sets instantly_statuts = "Success",
\* instantly_lead_id, instantly_campaign_id and last_synced_at, so that the
\* record is no longer pending once the batch is written.
C9_CreateOutcome ==
    /\ [][\A t \in DOMAIN task :
            CreatedSeen(t) =>
                /\ task'[t].pc = "done"
                /\ task'[t].res = [id |-> t, status |-> "Success", op |-> "Create",
                                   new_instantly_id |-> Uuid(nextId),
                                   campaign_id |-> task[t].cid]
                /\ IsCampaignOf(task[t].cid, task[t].name)]_vars
    /\ [](\A i \in OutcomesWith("Create") :
            LET res == run.syncResults[i]
            IN  /\ run.syncBatch[i] = LinkedUpdate(res)
                /\ res.new_instantly_id # None /\ res.campaign_id # None
                /\ run.now > run.snap[res.id].last_synced_at
                /\ Committed =>
                      /\ ~IsPending(ds[res.id])
                      /\ ds[res.id].instantly_lead_id = res.new_instantly_id
                      /\ ds[res.id].instantly_campaign_id = res.campaign_id
                      /\ ds[res.id].instantly_statuts = Txt("Success"))

C9_Witness ==
    /\ Committed
    /\ \E i \in OutcomesWith("Create") :
          LET res == run.syncResults[i]
          IN  /\ ~HasValidPointer(run.snap[res.id])
              /\ RequestsOf(reqs, res.id, {"search"}) # {}
              /\ RequestsOf(reqs, res.id, {"add"}) # {}
              /\ RemoteHas(res.new_instantly_id)
              /\ RemoteLead(res.new_instantly_id).camp = res.campaign_id
              /\ ds[res.id].instantly_lead_id = res.new_instantly_id
              /\ ds[res.id].last_synced_at = run.now

\* a payload is sanitized when no value of it is a NaN, and its custom
\* variables hold no empty value
Sanitized(payload) ==
    /\ payload.email.k # "nan"
    /\ payload.custom_variables # None =>
          \A f \in DOMAIN payload.custom_variables :
              payload.custom_variables[f].k \notin {"nan", "none"}

\* the emails GET /leads/{id} may answer with
RemoteEmails == {l.email : l \in rleads}

\* C10: for a record with a valid pointer, the email mark and an email,
\* when GET /leads/{id} succeeds and the remote email equals the local one
\* up to letter case, the next request is a PATCH; every PATCH is for the
\* record's pointer and carries a sanitized payload; when the PATCH
\* succeeds the outcome is Update with the pointer unchanged, no DELETE and
\* no POST /leads/add is sent for the record, and its update advances
\* last_synced_at.
C10_UpdateOutcome ==
    /\ [][\A t \in DOMAIN task :
            /\ \A e \in RemoteEmails :
                  ( /\ task[t].pc = "get"
                    /\ HasValidPointer(task[t].lead)
                    /\ HasEmailMark(task[t].lead) /\ task[t].email # None
                    /\ Lower(e) = task[t].email
                    /\ Delivered(t, Resp(200, [email |-> e])) )
                  => task'[t].pc = "patch" /\ ~task'[t].sleeping
            /\ (task[t].pc = "patch"
                    /\ Delivered(t, Resp(200, build_patch_payload(task[t]))))
                  => /\ task'[t].pc = "done"
                     /\ task'[t].res = [id |-> t, status |-> "Success", op |-> "Update",
                                        new_instantly_id |-> task[t].lead.instantly_lead_id,
                                        campaign_id |-> task[t].cid]
                     /\ RequestsOf(reqs', t, {"delete", "add"}) = {}]_vars
    /\ [](\A q \in reqs :
            q.op = "patch" =>
                /\ HasValidPointer(run.snap[q.lead])
                /\ q.arg.id = run.snap[q.lead].instantly_lead_id
                /\ q.arg.payload.email = NormEmail(run.snap[q.lead].key_contact_email)
                /\ Sanitized(q.arg.payload))
    /\ [](\A i \in OutcomesWith("Update") :
            LET res == run.syncResults[i]
            IN  /\ run.syncBatch[i] = LinkedUpdate(res)
                /\ res.new_instantly_id = run.snap[res.id].instantly_lead_id
                /\ run.now > run.snap[res.id].last_synced_at
                /\ RequestsOf(reqs, res.id, {"delete", "add"}) = {}
                /\ Committed =>
                      /\ ~IsPending(ds[res.id])
                      /\ ds[res.id].instantly_lead_id = run.snap[res.id].instantly_lead_id)

\* " A " is stored, "A" is on the platform, and the postal code is a NaN:
\* the record was patched without custom variables and is synced
C10_Witness ==
    /\ Committed
    /\ \E i \in OutcomesWith("Update") :
          LET res == run.syncResults[i]
          IN  /\ run.snap[res.id].key_contact_email = Str("a", TRUE, TRUE)
              /\ run.snap[res.id].postal_code = NaN
              /\ \E q \in RequestsOf(reqs, res.id, {"patch"}) :
                    q.arg.payload.custom_variables = None
              /\ ds[res.id].instantly_lead_id = Uuid(1)
              /\ ds[res.id].last_synced_at = run.now

\* what DELETE /leads/{id} may end with: done, a 404 whose text says "not
\* found", a 404 whose text does not, and the failures of any request
DeleteAnswers ==
    {Resp(200, ErrBody(FALSE)), Resp(404, ErrBody(TRUE)), Resp(404, ErrBody(FALSE))}
        \cup FailedAnswers

\* the step in which worker t, in branch A2, gets r from the DELETE of the
\* record's pointer
DeleteSeen(t, r) ==
    /\ task[t].pc = "del" /\ task[t].at = "A2"
    /\ HasValidPointer(task[t].lead)
    /\ ~(HasEmailMark(task[t].lead) /\ task[t].email # None)
    /\ Delivered(t, r)

DeleteOutcome(t) ==
    [id |-> t, status |-> "Success", op |-> "Delete", new_instantly_id |-> None,
     campaign_id |-> None]

\* the batch side of C11: a Delete outcome comes from a DELETE of the
\* record's pointer, and its update clears the pointer, the campaign and
\* instantly_statuts and advances last_synced_at
DeleteUpdates ==
    \A i \in OutcomesWith("Delete") :
        LET res == run.syncResults[i]
        IN  /\ HasValidPointer(run.snap[res.id])
            /\ \A q \in RequestsOf(reqs, res.id, {"delete"}) :
                  q.arg = run.snap[res.id].instantly_lead_id
            /\ RequestsOf(reqs, res.id, {"delete"}) # {}
            /\ run.syncBatch[i] =
                  [id |-> res.id,
                   fields |-> [last_synced_at |-> run.now, instantly_statuts |-> None,
                               instantly_lead_id |-> None,
                               instantly_campaign_id |-> None]]
            /\ run.now > run.snap[res.id].last_synced_at
            /\ Committed =>
                  /\ ~IsPending(ds[res.id])
                  /\ ds[res.id].instantly_lead_id = None
                  /\ ds[res.id].instantly_campaign_id = None
                  /\ ds[res.id].instantly_statuts = None

LinkSeen(t, l) ==
    /\ task[t].pc = "search" /\ task[t].at = "B1"
    /\ ~HasValidPointer(task[t].lead)
    /\ HasEmailMark(task[t].lead) /\ task[t].email # None
    /\ Delivered(t, Resp(200, l))

\* C12: for a record without valid pointer, with the email mark and an
\* email, when the search by email finds a remote lead the outcome is Link
\* with the identifier found and the resolved campaign; no POST /leads/add,
\* no PATCH and no DELETE is sent for the record; its update sets
\* instantly_lead_id to the identifier found.
C12_LinkOutcome ==
    /\ [][\A t \in DOMAIN task : \A l \in rleads :
            LinkSeen(t, l) =>
                /\ task'[t].pc = "done"
                /\ task'[t].res = [id |-> t, status |-> "Success", op |-> "Link",
                                   new_instantly_id |-> l.id,
                                   campaign_id |-> task[t].cid]
                /\ RequestsOf(reqs', t, {"add", "vars", "patch", "delete"}) = {}]_vars
    /\ [](\A i \in OutcomesWith("Link") :
            LET res == run.syncResults[i]
            IN  (~HasValidPointer(run.snap[res.id])
                    /\ RequestsOf(reqs, res.id, {"add"}) = {})
                => /\ RequestsOf(reqs, res.id, {"patch", "delete"}) = {}
                   /\ RequestsOf(reqs, res.id, {"search"}) # {}
                   /\ run.syncBatch[i] = LinkedUpdate(res)
                   /\ is_valid_uuid(res.new_instantly_id)
                   /\ Committed =>
                         /\ ds[res.id].instantly_lead_id = res.new_instantly_id
                         /\ ds[res.id].instantly_lead_id # run.snap[res.id].instantly_lead_id
                         /\ ~IsPending(ds[res.id]))

\* the record had no valid pointer, the search found lead 3 and the record
\* now points to it
C12_Witness ==
    /\ Committed
    /\ \E i \in OutcomesWith("Link") :
          LET res == run.syncResults[i]
          IN  /\ ~HasValidPointer(run.snap[res.id])
              /\ RequestsOf(reqs, res.id, {"search"}) # {}
              /\ RequestsOf(reqs, res.id, {"add", "patch", "delete"}) = {}
              /\ res.new_instantly_id = Uuid(3)
              /\ RemoteHas(Uuid(3))
              /\ ds[res.id].instantly_lead_id = Uuid(3)

(***************************************************************************)
(* SpecCap: sync_pending_leads or sync_with_verification, run after run,   *)
(* on three records of which some are pending, with a cap of one or two    *)
(* records, on a network that answers every request.                       *)
(***************************************************************************)
MaxCap == 2

CapCfg(verify, max_records) ==
    [verify |-> verify, max_records |-> max_records, retries |-> 0,
     failures |-> {}, lossy |-> FALSE, log |-> TRUE,
     malformed |-> FALSE, ds_fails |-> TRUE, nf_texts |-> BOOLEAN,
     verify_answers |-> {Txt("ok"), Txt("invalid")}]

InitCap ==
    /\ \E verify \in BOOLEAN, max_records \in 1..MaxCap :
          InitRest(CapCfg(verify, max_records))
    /\ InitPlatform({<<[name |-> Generic, id |-> CampId(1)]>>},
                    {[id |-> Uuid(3), email |-> Txt("c"), camp |-> CampId(1)]})
    /\ rleads # {}
    /\ \E synced \in [1..3 -> {0, 1}] :
          ds = [i \in 1..3 |->
                  [LeadRec(i, None, "1", Txt(<<"a", "b", "c">>[i]), None, NaN,
                           <<None, Txt("ok"), Txt("invalid")>>[i])
                   EXCEPT !.last_synced_at = synced[i]]]

NextCap ==
    \/ StartSync
    \/ StartVerifiedSync
    \/ \E i \in DOMAIN ds : VerifySingleEmail(i)
    \/ SplitGoodBad
    \/ \E t \in DOMAIN task : BeginLead(t)
    \/ \E t \in DOMAIN task : BeginBad(t)
    \/ \E t \in DOMAIN task : ListCampaignsAttempt(t)
    \/ \E t \in DOMAIN task : DeleteLeadAttempt(t)
    \/ \E t \in DOMAIN task : SearchLeadAttempt(t)
    \/ \E t \in DOMAIN task : RegisterVariablesAttempt(t)
    \/ \E t \in DOMAIN task : BulkAddAttempt(t)
    \/ FinishSync
    \/ FinishCleanup
    \/ FinishVerifiedSync

SpecCap == InitCap /\ [][NextCap]_vars

\* the records that were pending when the run started, in table order
PendingAtStart == InOrder({i \in DOMAIN run.snap : IsPending(run.snap[i])})

\* the first min(T, max_records) of them
WithinCap ==
    {PendingAtStart[k] : k \in 1..Min(Len(PendingAtStart), cfg.max_records)}

\* the records the run has worked on: a task, a verdict, a request, an
\* outcome or an update
Touched ==
    DOMAIN task \cup DOMAIN run.vres \cup {q.lead : q \in reqs}
        \cup {res.id : res \in Range(run.results)}
        \cup {u.id : u \in Range(run.syncBatch) \cup Range(run.badBatch)
                             \cup Range(run.mvBatch)}

Processed ==
    IF run.mode = "plain" THEN {res.id : res \in Range(run.syncResults)}
    ELSE DOMAIN run.vres

\* C13: in sync_pending_leads and in sync_with_verification with T pending
\* records and a cap max_records >= 1, the records worked on are the first
\* min(T, max_records) pending ones, so never more than max_records; the
\* summary the run returns has skipped = T - min(T, max_records); a record
\* beyond the cap gets no task, no verdict, no request and no update, and
\* is as it was (still pending) when the run returns.
C13_CapIsRespected ==
    run.n > 0 =>
        /\ Touched \subseteq WithinCap
        /\ Cardinality(Touched) <= cfg.max_records
        /\ \A i \in DOMAIN ds \ WithinCap : ds[i] = run.snap[i]
        /\ (run.mode = "plain" /\ run.pc = "sync") => DOMAIN task = WithinCap
        /\ run.mode = "verify" => DOMAIN run.vres = WithinCap
        /\ (run.pc = "idle" /\ ~(run.mode = "verify" /\ run.report.error)) =>
              /\ Processed = WithinCap
              /\ Cardinality(Processed) = Min(Len(PendingAtStart), cfg.max_records)
        /\ (run.pc = "idle" /\ ~run.report.error) =>
              /\ run.report.skipped = Len(PendingAtStart) - Cardinality(Processed)
              /\ \A i \in Range(PendingAtStart) \ WithinCap : IsPending(ds[i])

\* three records were pending and the cap is one: the second run has
\* taken the record the first run deferred, and defers the third
C13_Witness ==
    /\ run.n = 2 /\ run.pc = "idle" /\ cfg.max_records = 1
    /\ ~run.report.error
    /\ run.report.skipped = 1 /\ run.report.count = 1
    /\ Processed = {2}
    /\ ~IsPending(ds[1]) /\ ~IsPending(ds[2]) /\ IsPending(ds[3])
    /\ \E q \in reqs : q.lead = 2 /\ q.op = "add"

(***************************************************************************)
(* SpecMal: sync_pending_leads on one record with an email, on a platform  *)
(* whose 200 answers may hold a body of another shape than the client      *)
(* expects.                                                                *)
(***************************************************************************)
MalCfg ==
    [verify |-> FALSE, max_records |-> 5000, retries |-> 0,
     failures |-> {Resp429(None), Exc}, lossy |-> FALSE, log |-> TRUE,
     malformed |-> TRUE, ds_fails |-> TRUE, nf_texts |-> BOOLEAN,
     verify_answers |-> {}]

InitMal ==
    /\ InitRest(MalCfg)
    /\ InitPlatform({<<>>, <<[name |-> Generic, id |-> CampId(1)]>>},
                    {[id |-> Uuid(1), email |-> Txt("a"), camp |-> CampId(1)],
                     [id |-> Uuid(1), email |-> Txt("b"), camp |-> CampId(1)]})
    /\ \E ptr \in {None, Uuid(1)} :
          ds = <<LeadRec(1, ptr, "1", Txt("a"), None, Txt("75001"), None)>>

NextMal ==
    \/ StartSync
    \/ \E t \in DOMAIN task : BeginLead(t)
    \/ \E t \in DOMAIN task : ListCampaignsAttempt(t)
    \/ \E t \in DOMAIN task : CreateCampaignAttempt(t)
    \/ \E t \in DOMAIN task : GetLeadAttempt(t)
    \/ \E t \in DOMAIN task : PatchLeadAttempt(t)
    \/ \E t \in DOMAIN task : DeleteLeadAttempt(t)
    \/ \E t \in DOMAIN task : SearchLeadAttempt(t)
    \/ \E t \in DOMAIN task : RegisterVariablesAttempt(t)
    \/ \E t \in DOMAIN task : BulkAddAttempt(t)
    \/ \E t \in DOMAIN task : Wake(t)
    \/ FinishSync
    \/ Propagate

SpecMal == InitMal /\ [][NextMal]_vars

\* C14: _process_single_lead never raises: whatever the record and whatever
\* the platform answers (a created lead or a GET /leads/{id} body that is
\* not a mapping included), the worker ends with a Success or a Failed
\* outcome, and the run with a report built from the outcomes.
C14_NeverRaises ==
    /\ \A t \in DOMAIN task :
          task[t].pc = "done" => task[t].res.status \in {"Success", "Failed"}
    /\ run.report # [error |-> TRUE, raised |-> TRUE]

\* POST /leads/add created the lead and answered with an item that is not a
\* mapping: the run ended with the exception, the record is as it was and
\* the lead it created is on the platform
C14_Witness ==
    /\ run.pc = "idle" /\ run.n = 1
    /\ run.report = [error |-> TRUE, raised |-> TRUE]
    /\ \E res \in Range(run.syncResults) : res.status = "Raised"
    /\ \E q \in reqs : q.op = "add"
    /\ \E l \in rleads : l.id = Uuid(10) /\ l.email = Txt("a")
    /\ ds[1] = run.snap[1]

\* the positions of a worker inside a client or directory operation: the
\* campaign listing and creation, get, patch, delete, search, register
\* variables, and the two POSTs of the bulk-add
RequestPcs == {"list", "create", "get", "patch", "del", "search", "vars", "add1", "add2"}

\* worker t is in the sleep that follows a 429 on the last attempt of the
\* loop: an exception on it is raised at once (line 69) and a 5xx on it is
\* returned (lines 61-65), so only a 429 sleeps there
Exhausted429(t) ==
    /\ task[t].sleeping
    /\ AfterSleep(task[t].attempt, cfg.retries, task[t].lastExc).next = "raise"

\* C15: a client or directory operation whose request keeps failing until
\* the retries are exhausted ends with an error-valued result and does not
\* raise, and what _request_with_retry hands it on exhaustion is the last
\* response or the exception of the last attempt: after a 429 on the last
\* attempt, that 429 response.
C15_ExhaustionGivesLastAnswer ==
    [][\A t \in DOMAIN task : \A r \in FailedAnswers :
          (task[t].pc \in RequestPcs /\ Delivered(t, r)) =>
              /\ task'[t].pc \in RequestPcs \cup {"done"}
              /\ task'[t].pc = "done" /\ task[t].kind = "lead" =>
                    task'[t].res.status \in {"Success", "Failed"}
              /\ Exhausted429(t) => (r.kind = "resp" /\ r.status = 429)]_vars

\* every attempt of a request was answered 429: the worker is in the last
\* sleep of the loop with no exception to raise
C15_Witness ==
    \E t \in DOMAIN task :
        /\ Exhausted429(t)
        /\ task[t].attempt = cfg.retries /\ cfg.retries > 0
        /\ ~task[t].lastExc
        /\ task[t].pc = "patch"

(***************************************************************************)
(* SpecRetry: _request_with_retry with its default of 4 retries, under     *)
(* every failure of every attempt, in the requests of one record that has  *)
(* no email: the campaign listing and creation, and the DELETE of its      *)
(* pointer.                                                                *)
(***************************************************************************)
DefaultRetries == 4

RetryCfg ==
    [verify |-> FALSE, max_records |-> 5000, retries |-> DefaultRetries,
     failures |-> AllFailures({None, [k |-> "num", n |-> 60], [k |-> "text"]}),
     lossy |-> TRUE, log |-> TRUE, malformed |-> FALSE, ds_fails |-> TRUE, nf_texts |-> BOOLEAN,
     verify_answers |-> {}]

InitRetry ==
    /\ InitRest(RetryCfg)
    /\ InitPlatform({<<>>, <<[name |-> Generic, id |-> CampId(1)]>>},
                    {[id |-> Uuid(1), email |-> Txt("a"), camp |-> CampId(1)]})
    /\ \E ptr \in {None, Uuid(1)} :
          ds = <<LeadRec(1, ptr, "0", None, None, NaN, None)>>

NextRetry ==
    \/ StartSync
    \/ \E t \in DOMAIN task : BeginLead(t)
    \/ \E t \in DOMAIN task : ListCampaignsAttempt(t)
    \/ \E t \in DOMAIN task : CreateCampaignAttempt(t)
    \/ \E t \in DOMAIN task : DeleteLeadAttempt(t)
    \/ \E t \in DOMAIN task : Wake(t)
    \/ FinishSync

SpecRetry == InitRetry /\ [][NextRetry]_vars

\* worker t is in the same call of _request_with_retry before and after
\* the step
SameCall(t) ==
    /\ t \in DOMAIN task' /\ task[t].pc \in RequestPcs
    /\ task'[t].pc = task[t].pc /\ task'[t].at = task[t].at
    /\ task'[t].skip = task[t].skip
    /\ task'[t] # task[t]

\* C16: with retries = 4 a call of _request_with_retry sends at most 5 HTTP
\* requests: every request is sent in a pass numbered 0..retries, a pass
\* sends one request, and each step of a call either goes to sleep after
\* its request or moves on to the next pass, so that the call ends after
\* at most retries + 1 attempts; the one call that posts a campaign in a
\* run sends at most 5 POST /campaigns.
C16_AtMostFiveRequests ==
    /\ [](\A t \in DOMAIN task : task[t].attempt <= cfg.retries)
    /\ [](\A n \in DOMAIN posts : posts[n] <= cfg.retries + 1)
    /\ [][\A t \in DOMAIN task :
            SameCall(t) =>
                \/ /\ ~task[t].sleeping /\ task'[t].sleeping
                   /\ task'[t].attempt = task[t].attempt
                \/ /\ task[t].sleeping /\ ~task'[t].sleeping
                   /\ task'[t].attempt = task[t].attempt + 1]_vars
    /\ [][\A t \in DOMAIN task :
            (task[t].sleeping /\ task[t].attempt = cfg.retries /\ t \in DOMAIN task'
                /\ task'[t] # task[t])
            => ~SameCall(t)]_vars

\* five POST /campaigns were sent by the one call of the run, each answered
\* 429, and the call has ended
C16_Witness ==
    /\ cfg.retries = 4
    /\ posts[Generic] = 5
    /\ \E t \in DOMAIN task : task[t].pc = "done"
    /\ campaigns = <<>>

\* a batch update of the run that batch_update_leads reported as failed
FailedBatches ==
    {b \in {"sync", "bad", "mv"} :
        \/ b = "sync" /\ run.syncOk = "failed"
        \/ b = "bad" /\ run.badOk = "failed"
        \/ b = "mv" /\ run.mvOk = "failed"}

\* C17: when batch_update_leads returns false for the reconciliation batch,
\* for the bad-lead cleanup batch or for the verification-status batch, the
\* report the run returns carries a top-level error instead of a summary.
C17_BatchFailureIsRunError ==
    (run.pc = "idle" /\ run.n > 0 /\ FailedBatches # {}) => run.report.error

\* the bad-lead batch was not written, and the run returned a summary that
\* counts the lead as blocked; the record is as it was
C17_Witness ==
    /\ run.pc = "idle" /\ run.mode = "verify"
    /\ FailedBatches = {"bad"}
    /\ ~run.report.error
    /\ run.report.blocked = 1
    /\ \E u \in Range(run.badBatch) :
          /\ ds[u.id] = run.snap[u.id]
          /\ ds[u.id].instantly_statuts # Txt("Blocked")

(***************************************************************************)
(* SpecDet: one batch of three records on a network that answers every    *)
(* request, from one initial state: record 1 points to remote lead 1,      *)
(* which holds the email "a", and has the email "b"; records 2 and 3 have  *)
(* no pointer and the email "a".  Only the order of the workers' steps     *)
(* varies.                                                                 *)
(***************************************************************************)
DetCfg ==
    [verify |-> FALSE, max_records |-> 5000, retries |-> 0, failures |-> {},
     lossy |-> FALSE, log |-> TRUE, malformed |-> FALSE, ds_fails |-> TRUE, nf_texts |-> BOOLEAN,
     verify_answers |-> {}]

InitDet ==
    /\ InitRest(DetCfg)
    /\ campaigns = <<[name |-> Generic, id |-> CampId(1)]>>
    /\ rleads = {[id |-> Uuid(1), email |-> Txt("a"), camp |-> CampId(1)]}
    /\ nextId = 10
    /\ ds = <<LeadRec(1, Uuid(1), "1", Txt("b"), None, Txt("75001"), None),
              LeadRec(2, None, "1", Txt("a"), None, Txt("75001"), None),
              LeadRec(3, None, "1", Txt("a"), None, Txt("75001"), None)>>

NextDet ==
    \/ StartSync
    \/ \E t \in DOMAIN task : BeginLead(t)
    \/ \E t \in DOMAIN task : ListCampaignsAttempt(t)
    \/ \E t \in DOMAIN task : GetLeadAttempt(t)
    \/ \E t \in DOMAIN task : DeleteLeadAttempt(t)
    \/ \E t \in DOMAIN task : SearchLeadAttempt(t)
    \/ \E t \in DOMAIN task : RegisterVariablesAttempt(t)
    \/ \E t \in DOMAIN task : BulkAddAttempt(t)
    \/ FinishSync

SpecDet == InitDet /\ [][NextDet]_vars

\* the outcome of record i in the batch of the run
OutcomeOf(i) ==
    run.syncResults[CHOOSE k \in 1..Len(run.syncResults) : run.syncResults[k].id = i]

\* C18: for a fixed batch and a fixed remote state the update of each lead
\* is the same under every interleaving of the workers.  From the initial
\* state of SpecDet the workers taken one after the other, in the order of
\* the table, give: record 1 deletes remote lead 1 and creates a lead,
\* record 2 creates a lead, record 3 links to the lead of record 2; so that
\* is the outcome of every run.
C18_SameUpdateInEveryOrder ==
    (run.n = 1 /\ run.pc = "idle") =>
        /\ OutcomeOf(1).op = "Create"
        /\ OutcomeOf(2).op = "Create"
        /\ OutcomeOf(3).op = "Link"
        /\ OutcomeOf(3).new_instantly_id = OutcomeOf(2).new_instantly_id
        /\ \A i \in 1..3 : RemoteHas(OutcomeOf(i).new_instantly_id)

\* record 2 searched before record 1 deleted: it is linked to remote lead
\* 1, which is gone when the run returns
C18_Witness ==
    /\ run.n = 1 /\ Committed
    /\ OutcomeOf(2).op = "Link"
    /\ OutcomeOf(2).new_instantly_id = Uuid(1)
    /\ ds[2].instantly_lead_id = Uuid(1)
    /\ ~RemoteHas(Uuid(1))
    /\ ~IsPending(ds[2])

(***************************************************************************)
(* SpecLive: sync_pending_leads, run after run, on one record, with a      *)
(* network and a datastore that may fail until they are healed.  The last  *)
(* run the bound allows starts after the healing.  The workers of the pool *)
(* run, the caller starts the next run, and the healing happens.           *)
(***************************************************************************)
LiveCfg(nf_texts) ==
    [verify |-> FALSE, max_records |-> 5000, retries |-> 0,
     failures |-> {Resp429(None), Exc}, lossy |-> TRUE, log |-> FALSE,
     malformed |-> FALSE, ds_fails |-> TRUE, nf_texts |-> nf_texts,
     verify_answers |-> {}]

\* the platform answers every request with what it did, and
\* batch_update_leads writes the batch
Healed == Quiet /\ ~cfg.ds_fails

InitLive ==
    /\ \E nf_texts \in {{TRUE}, BOOLEAN} : InitRest(LiveCfg(nf_texts))
    /\ InitPlatform({<<>>, <<[name |-> Generic, id |-> CampId(1)]>>},
                    {[id |-> Uuid(1), email |-> Txt("a"), camp |-> CampId(1)],
                     [id |-> Uuid(1), email |-> Txt("b"), camp |-> CampId(1)],
                     [id |-> Uuid(3), email |-> Txt("a"), camp |-> CampId(1)]})
    /\ \E shape \in {<<None, "1", Txt("a")>>, <<Uuid(1), "1", Txt("a")>>,
                     <<Uuid(1), "0", Txt("a")>>, <<Uuid(1), "1", None>>} :
          ds = <<LeadRec(1, shape[1], shape[2], shape[3], None, Txt("75001"), None)>>

\* the platform stops returning errors
Heal ==
    /\ ~Healed
    /\ cfg' = [cfg EXCEPT !.failures = {}, !.lossy = FALSE, !.ds_fails = FALSE]
    /\ UNCHANGED <<platform, directory, varsReg, ds, clock, run, task, reqs, posts>>

\* the caller starts the next run
\* a run after the last counted one: the platform is healed and runs keep
\* being started; the run counter and the clock stay at their bounds
StartAgain ==
    /\ run.pc = "idle" /\ run.n = MaxRuns /\ ~cfg.verify /\ Healed
    /\ reqs' = {}
    /\ posts' = [n \in DOMAIN posts |-> 0]
    /\ EnterSync([NoRun(run.n) EXCEPT !.mode = "plain", !.now = clock, !.snap = ds],
                 InOrder({i \in DOMAIN ds : IsPending(ds[i])}))
    /\ UNCHANGED <<cfg, platform, ds, clock>>

StartLive == ((run.n + 1 < MaxRuns \/ Healed) /\ StartSync) \/ StartAgain

Workers ==
    \E t \in DOMAIN task :
        \/ BeginLead(t) \/ ListCampaignsAttempt(t) \/ CreateCampaignAttempt(t)
        \/ GetLeadAttempt(t) \/ PatchLeadAttempt(t) \/ DeleteLeadAttempt(t)
        \/ SearchLeadAttempt(t) \/ RegisterVariablesAttempt(t) \/ BulkAddAttempt(t)
        \/ Wake(t)

NextLive ==
    \/ StartLive
    \/ Heal
    \/ \E t \in DOMAIN task : BeginLead(t)
    \/ \E t \in DOMAIN task : ListCampaignsAttempt(t)
    \/ \E t \in DOMAIN task : CreateCampaignAttempt(t)
    \/ \E t \in DOMAIN task : GetLeadAttempt(t)
    \/ \E t \in DOMAIN task : PatchLeadAttempt(t)
    \/ \E t \in DOMAIN task : DeleteLeadAttempt(t)
    \/ \E t \in DOMAIN task : SearchLeadAttempt(t)
    \/ \E t \in DOMAIN task : RegisterVariablesAttempt(t)
    \/ \E t \in DOMAIN task : BulkAddAttempt(t)
    \/ \E t \in DOMAIN task : Wake(t)
    \/ FinishSync

SpecLive ==
    /\ InitLive /\ [][NextLive]_vars
    /\ WF_vars(StartLive) /\ WF_vars(Heal) /\ WF_vars(Workers) /\ WF_vars(FinishSync)

\* the record is synced: it is not pending, and its pointer names a remote
\* lead that holds its email; or, when it has no email to sync, it has no
\* pointer and the remote lead it pointed to is gone
Settled(i) ==
    LET rec == ds[i]
        email == NormEmail(rec.key_contact_email)
    IN  /\ ~IsPending(rec)
        /\ IF HasEmailMark(rec) /\ email # None
           THEN /\ RemoteHas(rec.instantly_lead_id)
                /\ Lower(RemoteLead(rec.instantly_lead_id).email) = email
           ELSE rec.instantly_lead_id = None /\ ~RemoteHas(Uuid(1))

\* a record left Failed is pending, and the run that starts takes it
FailedIsRetried ==
    /\ \A i \in DOMAIN ds : ds[i].instantly_statuts = Txt("Failed") => IsPending(ds[i])
    /\ run.pc = "sync" =>
          \A i \in DOMAIN run.snap :
              run.snap[i].instantly_statuts = Txt("Failed") => i \in DOMAIN task

\* a DELETE of a lead the platform does not hold is answered with a text
\* that says "not found"
NotFoundIsSaid == cfg.nf_texts = {TRUE}

\* the run has returned and left record 1 Failed, and the platform has
\* stopped returning errors
LeftFailed ==
    /\ run.pc = "idle" /\ Healed
    /\ ds[1].instantly_statuts = Txt("Failed")

MaxItems == 2

MaxDepth == 2

MaxCalls == 2

Keys == <<"a", "b", "c", "d">>

Leaves ==
    {None, NaN, Inf, NaT, Date("2024-05-01T10:00:00"), Num(1), NpNum(1),
     Bool(TRUE), Str("x", FALSE, FALSE)}

\* what numpy's tolist() leaves in the list of an array of floats
ArrayItems == {NaN, Inf, Num(1)}

KeysOf(n) == {Keys[i] : i \in 1..n}

\* the containers of at most MaxItems leaves
Flat ==
    UNION {{List(q) : q \in [1..n -> Leaves]} \cup
           {Tuple(q) : q \in [1..n -> Leaves]} \cup
           {Array(q) : q \in [1..n -> ArrayItems]} \cup
           {Dict(f) : f \in [KeysOf(n) -> Leaves]} : n \in 0..MaxItems}

\* a value inside one more container, alone or after a NaN
Wrap(S) ==
    UNION {{List(<<v>>), Tuple(<<NaN, v>>), Dict([key \in {"a"} |-> v])} : v \in S}

RECURSIVE Nested(_)
Nested(d) ==
    IF d = 0 THEN Leaves
    ELSE IF d = 1 THEN Leaves \cup Flat
    ELSE Nested(d - 1) \cup Wrap(Nested(d - 1))

SanCfg ==
    [verify |-> FALSE, max_records |-> 5000, retries |-> 0, failures |-> {},
     lossy |-> FALSE, log |-> FALSE, malformed |-> FALSE, ds_fails |-> FALSE,
     nf_texts |-> {TRUE}, verify_answers |-> {}]

InitSan ==
    /\ InitRest(SanCfg)
    /\ campaigns = <<>>
    /\ rleads = {}
    /\ nextId = 10
    /\ \E x \in Nested(MaxDepth) : ds = <<x>>

\* one call: the function only reads its argument (lines 94 and 98 build
\* the dict and the list they return), so the argument holds afterwards
\* what it held before
SanitizeCall(x) == [given |-> x, after |-> x, out |-> sanitize_for_json(x)]

Sanitize ==
    /\ run.pc = "idle"
    /\ Len(run.results) < MaxCalls
    /\ LET first == run.results = <<>>
           c == SanitizeCall(IF first THEN ds[1] ELSE run.results[Len(run.results)].out)
       IN  /\ run' = [run EXCEPT !.results = Append(@, c)]
           /\ ds' = IF first THEN <<c.after>> ELSE ds
    /\ UNCHANGED <<cfg, campaigns, rleads, nextId, cache, loaded, lock, varsReg,
                   clock, task, reqs, posts>>

NextSan == Sanitize

SpecSan == InitSan /\ [][NextSan]_vars

\* y is x with every NaN, infinity and missing value replaced by None,
\* every date replaced by its ISO text, every sequence as a list, and
\* every other leaf as it was
RECURSIVE IsSanitized(_, _)
IsSanitized(x, y) ==
    CASE x.k \in {"none", "nan", "inf", "nat"} -> y = None
      [] x.k = "date" -> y.k = "str" /\ y.s = x.iso
      [] x.k = "npnum" -> y = Num(x.n)
      [] x.k = "dict" ->
            /\ y.k = "dict"
            /\ DOMAIN y.items = DOMAIN x.items
            /\ \A key \in DOMAIN x.items : IsSanitized(x.items[key], y.items[key])
      [] x.k \in {"list", "tuple", "array"} ->
            /\ y.k = "list"
            /\ Len(y.items) = Len(x.items)
            /\ \A i \in 1..Len(x.items) : IsSanitized(x.items[i], y.items[i])
      [] OTHER -> y = x

Pointers == {None, NotAUuid, IdText(36, 2, 0), IdText(30, 4, 0), Uuid(1)}

GateCfg(verify) ==
    [verify |-> verify, max_records |-> 5000, retries |-> 0, failures |-> {},
     lossy |-> FALSE, log |-> TRUE, malformed |-> FALSE, ds_fails |-> FALSE,
     nf_texts |-> {TRUE}, verify_answers |-> {Txt("ok"), Txt("invalid")}]

InitGate ==
    /\ \E verify \in BOOLEAN : InitRest(GateCfg(verify))
    /\ InitPlatform({<<[name |-> Generic, id |-> CampId(1)]>>},
                    {[id |-> Uuid(1), email |-> Txt("a"), camp |-> CampId(1)],
                     [id |-> Uuid(1), email |-> Txt("b"), camp |-> CampId(1)],
                     [id |-> NotAUuid, email |-> Txt("a"), camp |-> CampId(1)],
                     [id |-> NotAUuid, email |-> Txt("b"), camp |-> CampId(1)]})
    /\ \E ptr \in Pointers, mark \in {"1", "0"}, email \in {None, Txt("a")} :
          ds = <<LeadRec(1, ptr, mark, email, None, Txt("75001"), None)>>

NextGate ==
    \/ StartSync
    \/ StartVerifiedSync
    \/ \E i \in DOMAIN ds : VerifySingleEmail(i)
    \/ SplitGoodBad
    \/ \E t \in DOMAIN task : BeginLead(t)
    \/ \E t \in DOMAIN task : BeginBad(t)
    \/ \E t \in DOMAIN task : ListCampaignsAttempt(t)
    \/ \E t \in DOMAIN task : GetLeadAttempt(t)
    \/ \E t \in DOMAIN task : PatchLeadAttempt(t)
    \/ \E t \in DOMAIN task : DeleteLeadAttempt(t)
    \/ \E t \in DOMAIN task : SearchLeadAttempt(t)
    \/ \E t \in DOMAIN task : RegisterVariablesAttempt(t)
    \/ \E t \in DOMAIN task : BulkAddAttempt(t)
    \/ FinishSync
    \/ FinishCleanup
    \/ FinishVerifiedSync

SpecGate == InitGate /\ [][NextGate]_vars

\* the identifier a logged get, patch or delete request names
LeadIdOf(q) == IF q.op = "patch" THEN q.arg.id ELSE q.arg

\* C21: no get, patch or delete request is sent for an identifier that
\* fails the UUID gate.  "not-a-uuid" fails it and a text of 36 characters
\* in 5 groups passes; a record whose pointer fails it is handled as a
\* record without pointer by the reconciler and by the cleanup (no get,
\* no patch, and no delete but that of a lead found by email); and a
\* client function given such an identifier returns an error and leaves
\* the platform alone.
C21_NoRequestForInvalidId ==
    /\ ~is_valid_uuid(NotAUuid) /\ is_valid_uuid(Uuid(1))
    /\ \A q \in reqs : q.op \in {"get", "patch", "delete"} => is_valid_uuid(LeadIdOf(q))
    /\ \A t \in DOMAIN task :
          ~is_valid_uuid(task[t].lead.instantly_lead_id) =>
              /\ task[t].pc \notin {"get", "patch"}
              /\ task[t].pc = "del" => task[t].at = "bad_slow"
              /\ (task[t].pc = "done" /\ task[t].kind = "bad" /\ task[t].res.error) =>
                    /\ RemoteHas(NotAUuid)
                    /\ \A q \in reqs : q.op # "delete"

\* the cleanup found by email a lead whose identifier is not a UUID: the
\* delete function returned an error and no request was sent
C21_Witness ==
    /\ cfg.verify
    /\ \E t \in DOMAIN task :
          /\ task[t].kind = "bad" /\ task[t].pc = "done"
          /\ task[t].lead.instantly_lead_id = NotAUuid
          /\ task[t].res.error /\ ~task[t].res.deleted
    /\ \E q \in reqs : q.op = "search"
    /\ \A q \in reqs : q.op # "delete"
    /\ RemoteHas(NotAUuid)

\* the workers inside find_or_create_instantly_campaign, past the cache
\* lookup: listing the campaigns or creating one
Inside == {t \in DOMAIN task : task[t].pc \in {"list", "create"}}

\* C22: at most one worker at a time is inside the hydrate/check/create
\* steps of find_or_create_instantly_campaign, and it holds the lock; the
\* cache and its loaded flag change only in a step of the worker that
\* holds the lock, or when reset_campaign_cache runs with the lock free at
\* the start of a run; and the lock is held by nobody once its holder has
\* returned, whether with an identifier or with None.
C22_CacheUnderLock ==
    /\ [](Cardinality(Inside) <= 1)
    /\ [](\A t \in Inside : lock = t)
    /\ [](lock # 0 => lock \in Inside)
    /\ [][(cache' # cache \/ loaded' # loaded) =>
              \/ lock \in Inside /\ task'[lock] # task[lock]
              \/ lock = 0 /\ run.pc = "idle" /\ run'.pc = "sync"
              \/ lock = 0 /\ lock' # 0 /\ task'[lock'].pc \in {"list", "create"}]_vars
    /\ [][\A t \in DOMAIN task :
              (task[t].pc = "queued" /\ task'[t].pc # "queued") => lock = 0]_vars

\* a worker left with None after a failed request, and the next worker is
\* inside with the lock
C22_Witness ==
    /\ \E t \in DOMAIN task :
          task[t].pc = "done" /\ task[t].res.status = "Failed"
    /\ lock # 0 /\ lock \in Inside
    /\ \E t \in DOMAIN task : task[t].pc = "queued"

(***************************************************************************)
(* SpecList: one record without pointer is synced against a platform that  *)
(* holds any number of campaigns up to one more than max_pages pages of    *)
(* limit campaigns; the campaign of the record is one of them, at any      *)
(* place of the listing, or none.                                          *)
(***************************************************************************)
MaxCampaigns == PageLimit * MaxPages + 1

ListCfg ==
    [verify |-> FALSE, max_records |-> 5000, retries |-> 0,
     failures |-> {Resp(500, ErrBody(FALSE))}, lossy |-> FALSE, log |-> TRUE,
     malformed |-> FALSE, ds_fails |-> FALSE, nf_texts |-> {TRUE},
     verify_answers |-> {}]

InitList ==
    /\ InitRest(ListCfg)
    /\ \E n \in 0..MaxCampaigns, p \in 0..MaxCampaigns :
          /\ p <= n
          /\ campaigns = [i \in 1..n |->
                             [name |-> IF i = p THEN Generic ELSE "Other - Cold Outreach",
                              id |-> CampId(i)]]
    /\ rleads = {}
    /\ nextId = 100
    /\ ds = <<LeadRec(1, None, "1", Txt("a"), None, Txt("75001"), None)>>

NextList ==
    \/ StartSync
    \/ \E t \in DOMAIN task : BeginLead(t)
    \/ \E t \in DOMAIN task : ListCampaignsAttempt(t)
    \/ \E t \in DOMAIN task : CreateCampaignAttempt(t)
    \/ \E t \in DOMAIN task : SearchLeadAttempt(t)
    \/ \E t \in DOMAIN task : RegisterVariablesAttempt(t)
    \/ \E t \in DOMAIN task : BulkAddAttempt(t)
    \/ FinishSync

SpecList == InitList /\ [][NextList]_vars

Named(name) == {i \in 1..Len(campaigns) : campaigns[i].name = name}

\* C23: once the cache is hydrated, every campaign of the platform is in
\* it, however many campaigns and pages there are, and a name the platform
\* holds is not created again (the platform never holds two campaigns of
\* the record's name).
C23_HydrationIsComplete ==
    /\ loaded => \A i \in 1..Len(campaigns) : campaigns[i].name \in DOMAIN cache
    /\ Cardinality(Named(Generic)) <= 1

\* the listing stopped after max_pages full pages, the cache counts as
\* loaded, and the campaign the listing did not reach was created again
C23_Witness ==
    /\ loaded
    /\ Len(campaigns) = MaxCampaigns + 1
    /\ Named(Generic) = {MaxCampaigns, MaxCampaigns + 1}
    /\ cache[Generic] = CampId(100)
    /\ posts[Generic] = 1

\* the requests _process_single_lead sends once it has a campaign
LeadOps == {"get", "search", "patch", "delete", "add", "vars"}

NoCampaign(t) == [id |-> t, status |-> "Failed", error |-> "no_campaign"]

\* C24: when find_or_create_instantly_campaign returns no identifier (the
\* listing or the create ended in a failure), the lead's outcome is Failed
\* with the no-campaign error and no get, search, patch, delete or
\* bulk-add request was sent for it; this holds for a lead of any shape,
\* also one that would only be deleted or skipped.
C24_NoCampaignFailsAtOnce ==
    /\ [][\A t \in DOMAIN task : \A r \in FailedAnswers :
              (task[t].pc \in {"list", "create"} /\ Delivered(t, r)) =>
                  /\ task'[t].pc = "done"
                  /\ task'[t].res = NoCampaign(t)
                  /\ RequestsOf(reqs', t, LeadOps) = {}
                  /\ rleads' = rleads]_vars
    /\ [](\A t \in DOMAIN task :
              (task[t].pc = "done" /\ task[t].res = NoCampaign(t)) =>
                  RequestsOf(reqs, t, LeadOps) = {})

\* a record that would only be deleted (valid pointer, no email mark) fails
\* because its campaign could not be created; its campaign lead is still
\* on the platform
C24_Witness ==
    \E t \in DOMAIN task :
        /\ task[t].pc = "done" /\ task[t].res = NoCampaign(t)
        /\ HasValidPointer(task[t].lead) /\ ~HasEmailMark(task[t].lead)
        /\ RemoteHas(task[t].lead.instantly_lead_id)
        /\ RequestsOf(reqs, t, {"create"}) # {}
        /\ RequestsOf(reqs, t, LeadOps) = {}

\* a lead scenario B2 of _process_single_lead: no valid pointer, and no
\* email mark or no email
NothingToSync(lead) ==
    ~HasValidPointer(lead)
        /\ ~(HasEmailMark(lead) /\ NormEmail(lead.key_contact_email) # None)

\* C25: for a lead with no valid pointer and no email mark or no email,
\* the reconciler sends no request at all (no campaign listing, no campaign
\* create, no search, no lead request) and its outcome is Skip with a null
\* new identifier.
C25_SkipWithoutRemoteCall ==
    \A t \in DOMAIN task :
        (task[t].kind = "lead" /\ NothingToSync(task[t].lead)) =>
            /\ task[t].pc \in {"queued", "done"}
            /\ \A q \in reqs : q.lead # t
            /\ task[t].pc = "done" =>
                  task[t].res = [id |-> t, status |-> "Success", op |-> "Skip",
                                 new_instantly_id |-> None, campaign_id |-> None]

\* a record with "not-a-uuid" as pointer and no email is skipped after its
\* campaign was listed and created
C25_Witness ==
    \E t \in DOMAIN task :
        /\ task[t].pc = "done"
        /\ task[t].lead.instantly_lead_id = NotAUuid
        /\ task[t].lead.key_contact_email = None
        /\ task[t].res.status = "Success" /\ task[t].res.op = "Skip"
        /\ task[t].res.new_instantly_id = None
        /\ RequestsOf(reqs, t, {"list"}) # {}
        /\ RequestsOf(reqs, t, {"create"}) # {}
        /\ RequestsOf(reqs, t, LeadOps) = {}
        /\ Len(campaigns) = 1

\* worker t leaves the request it was at: the client function has returned
LeavesRequest(t) == task[t].pc \in RequestPcs /\ task'[t].pc # task[t].pc

UpdateCreateFailed(t) ==
    [id |-> t, status |-> "Failed", error |-> "update_failed_create_failed"]

\* C26: in the Update branch a failed patch is followed by the delete of
\* the remote lead and then, whatever the delete answered, by a create;
\* when the create yields no lead the lead is searched by email, linked
\* if found and failed otherwise.  The update of that failed outcome holds
\* the status Failed and nothing else, so the record keeps its pointer,
\* also when the delete has removed the lead it points at.
C26_PatchFallback ==
    /\ [][\A t \in DOMAIN task :
              LET a == task[t]
                  b == task'[t]
              IN  /\ \A r \in FailedAnswers \cup {Resp(404, ErrBody(TRUE))} :
                        (a.pc = "patch" /\ Delivered(t, r)) =>
                            /\ b.pc = "del" /\ b.at = "A1a" /\ ~b.sleeping
                            /\ DeleteTarget(b) = a.lead.instantly_lead_id
                  /\ (a.pc = "del" /\ a.at = "A1a" /\ LeavesRequest(t)) =>
                        b.pc \in {"vars", "add1"} /\ b.at = "A1a"
                  /\ (a.pc = "vars" /\ a.at = "A1a" /\ LeavesRequest(t)) =>
                        b.pc = "add1" /\ b.at = "A1a"
                  /\ (a.pc \in {"add1", "add2"} /\ a.at = "A1a" /\ LeavesRequest(t)) =>
                        \/ a.pc = "add1" /\ b.pc = "add2" /\ b.at = "A1a"
                        \/ b.pc = "search" /\ b.at = "A1a_final"
                        \/ /\ b.pc = "done" /\ b.res.status = "Success"
                           /\ b.res.op = "Create"
                           /\ b.res.new_instantly_id = Uuid(nextId)
                  /\ (a.pc = "search" /\ a.at = "A1a_final" /\ LeavesRequest(t)) =>
                        /\ b.pc = "done"
                        /\ \/ b.res = UpdateCreateFailed(t)
                           \/ /\ b.res.status = "Success" /\ b.res.op = "Link"
                              /\ \E l \in Matches(a.email, a.cid) :
                                    b.res.new_instantly_id = l.id
                  /\ (a.pc = "search" /\ a.at = "A1a_final"
                          /\ Delivered(t, Resp(200, None))) =>
                        b.res = UpdateCreateFailed(t)]_vars
    /\ [](\A i \in 1..Len(run.syncBatch) :
              run.syncResults[i] = UpdateCreateFailed(run.syncResults[i].id) =>
                  /\ run.syncBatch[i].fields = [instantly_statuts |-> Txt("Failed")]
                  /\ ds[run.syncResults[i].id].instantly_lead_id =
                        run.snap[run.syncResults[i].id].instantly_lead_id)

\* the patch failed, the delete removed the campaign lead, both bulk-adds
\* failed and the search found nothing: the record is Failed and points at
\* a lead the platform no longer holds
C26_Witness ==
    /\ Committed
    /\ run.syncResults = <<UpdateCreateFailed(1)>>
    /\ RemoteHas(Uuid(1)) = FALSE
    /\ ds[1].instantly_lead_id = Uuid(1)
    /\ ds[1].instantly_statuts = Txt("Failed")
    /\ \A op \in {"get", "patch", "delete", "add", "search"} :
          RequestsOf(reqs, 1, {op}) # {}

EmailChangedCreateFailed(t) ==
    [id |-> t, status |-> "Failed", error |-> "email_changed_create_failed"]

\* the outcome links the record to a lead that holds its email
LinksToMatch(a, b) ==
    /\ b.pc = "done" /\ b.res.status = "Success" /\ b.res.op = "Link"
    /\ \E l \in Matches(a.email, a.cid) : b.res.new_instantly_id = l.id

\* the steps of branch A1b (lines 155-184), from the answer of the search
\* by the new email on
EmailChangedSteps ==
    \A t \in DOMAIN task :
        LET a == task[t]
            b == task'[t]
            old == a.lead.instantly_lead_id
        IN  /\ (a.pc = "search" /\ a.at = "A1b" /\ LeavesRequest(t)) =>
                  \/ /\ b.pc = "del" /\ b.at = "A1b_link" /\ a.exists
                     /\ b.newId # old /\ DeleteTarget(b) = old
                     /\ \E l \in Matches(a.email, a.cid) : b.newId = l.id
                  \/ LinksToMatch(a, b) /\ (~a.exists \/ b.res.new_instantly_id = old)
                  \/ /\ b.pc = "del" /\ b.at = "A1b_create" /\ a.exists
                     /\ DeleteTarget(b) = old
                  \/ b.pc \in {"vars", "add1"} /\ b.at = "A1b" /\ ~a.exists
            /\ \A l \in rleads :
                  (a.pc = "search" /\ a.at = "A1b" /\ Delivered(t, Resp(200, l))) =>
                      \/ b.pc = "del" /\ b.at = "A1b_link" /\ b.newId = l.id
                      \/ LinksToMatch(a, b) /\ b.res.new_instantly_id = l.id
            /\ (a.pc = "del" /\ a.at = "A1b_link" /\ LeavesRequest(t)) =>
                  LinksToMatch(a, b) /\ b.res.new_instantly_id = a.newId
            /\ (a.pc = "del" /\ a.at = "A1b_create" /\ LeavesRequest(t)) =>
                  b.pc \in {"vars", "add1"} /\ b.at = "A1b"
            /\ (a.pc \in {"add1", "add2"} /\ a.at = "A1b" /\ LeavesRequest(t)) =>
                  \/ a.pc = "add1" /\ b.pc = "add2" /\ b.at = "A1b"
                  \/ b.pc = "search" /\ b.at = "A1b_final"
                  \/ /\ b.pc = "done" /\ b.res.status = "Success"
                     /\ b.res.op = "Create"
                     /\ b.res.new_instantly_id = Uuid(nextId)
            /\ (a.pc = "search" /\ a.at = "A1b_final" /\ LeavesRequest(t)) =>
                  b.res = EmailChangedCreateFailed(t) \/ LinksToMatch(a, b)

\* the successful outcomes of branch A1b: the record had a valid pointer,
\* an email mark and an email, and no patch was sent for it
EmailChangedOutcomes ==
    {i \in 1..Len(run.syncResults) :
        LET res == run.syncResults[i]
            rec == run.snap[res.id]
        IN  /\ res.status = "Success" /\ res.op \in {"Link", "Create"}
            /\ HasValidPointer(rec) /\ HasEmailMark(rec)
            /\ RequestsOf(reqs, res.id, {"get"}) # {}
            /\ RequestsOf(reqs, res.id, {"patch"}) = {}}

\* C27: for a lead with a valid pointer whose remote email differs or whose
\* remote lead cannot be fetched, a lead found by the new email is linked,
\* and the old lead deleted when it existed and is another one; when none
\* is found the old lead is deleted when it existed, a create is
\* attempted, and after a failed create a second search links or fails the
\* lead.  After a successful outcome of the branch the platform holds no
\* lead under the old pointer, unless that lead is the linked one.
C27_EmailChanged ==
    /\ [][EmailChangedSteps]_vars
    /\ [](run.pc = "idle" =>
              \A i \in EmailChangedOutcomes :
                  LET old == run.snap[run.syncResults[i].id].instantly_lead_id
                  IN  RemoteHas(old) => run.syncResults[i].new_instantly_id = old)

\* the record's email changed from b to a: the lead found under a was
\* linked, the delete of the old lead failed, and the old lead is still
\* on the platform while the record no longer points at it
C27_Witness ==
    /\ Committed
    /\ EmailChangedOutcomes = {1}
    /\ run.syncResults[1].op = "Link"
    /\ run.syncResults[1].new_instantly_id = Uuid(3)
    /\ run.snap[1].instantly_lead_id = Uuid(1)
    /\ RemoteHas(Uuid(1)) /\ RemoteLead(Uuid(1)).email = Txt("b")
    /\ ds[1].instantly_lead_id = Uuid(3)
    /\ RequestsOf(reqs, 1, {"delete"}) # {}

SkipOutcome(b) == b.pc = "done" /\ b.res.status = "Success" /\ b.res.op = "Skip"

\* the steps of branch B1b (lines 205-228) after a bulk-add that answers
\* 200 with no created lead
ZeroCreatedSteps ==
    \A t \in DOMAIN task :
        LET a == task[t]
            b == task'[t]
        IN  /\ (a.pc \in {"add1", "add2"} /\ a.at = "B1"
                    /\ Delivered(t, Resp(200, <<>>))) =>
                  b.pc = "search" /\ b.at = "B1_skip"
            /\ (a.pc = "search" /\ a.at = "B1_skip" /\ LeavesRequest(t)) =>
                  LinksToMatch(a, b) \/ SkipOutcome(b)
            /\ (a.pc = "search" /\ a.at \in {"B1_skip", "B1_err"}
                    /\ LeavesRequest(t) /\ b.res.status = "Failed") =>
                  a.at = "B1_err" /\ b.res.error = "create_failed"

\* C28: in the create branch of a lead without pointer, a bulk-add that
\* answers 200 with zero created leads, on the first attempt or on the
\* attempt without custom variables, is followed by one more search by
\* email, whose outcome is Link when a lead is found and Skip otherwise;
\* the lead fails only when the bulk-add failed.
C28_ZeroCreatedIsSkip == [][ZeroCreatedSteps]_vars

\* a lead without pointer whose bulk-add answered 200 with nothing
\* created on the first attempt: the search after it found nothing and
\* the outcome is Skip
C28_Witness ==
    /\ Committed
    /\ Len(run.syncResults) = 1 /\ run.syncResults[1].status = "Success"
    /\ run.syncResults[1].op = "Skip"
    /\ run.snap[1].instantly_lead_id = None
    /\ \E q \in RequestsOf(reqs, 1, {"add"}) : q.arg.custom_variables # None
    /\ \A q \in RequestsOf(reqs, 1, {"add"}) : q.arg.custom_variables # None

\* the payload of the first attempt with custom_variables removed
Stripped(tk) == [ExportPayload(tk, FALSE) EXCEPT !.custom_variables = None]

\* the attempts of export_leads_to_instantly (lines 355-390)
FallbackSteps ==
    \A t \in DOMAIN task :
        LET a == task[t]
            b == task'[t]
        IN  /\ \A r \in FailedAnswers :
                  (a.pc = "add1" /\ Delivered(t, r)) =>
                      b.pc = "add2" /\ b.at = a.at /\ b.lead = a.lead
            /\ \A created \in {<<>>, <<Uuid(nextId)>>} :
                  (a.pc = "add1" /\ Delivered(t, Resp(200, created))) =>
                      b.pc \notin {"add1", "add2"}
            /\ (a.pc = "add2" /\ LeavesRequest(t)) => b.pc \notin {"add1", "add2"}
            /\ (a.pc = "add2" /\ ~a.sleeping /\ reqs' # reqs) =>
                  reqs' \ reqs = {[lead |-> t, op |-> "add", arg |-> Stripped(a)]}

\* C29: when the first bulk-add attempt of export_leads_to_instantly
\* fails, by a final response that is not 200 or by an exception after
\* the retries, exactly one more attempt is made, with custom_variables
\* removed and every other field as it was; after a first attempt that
\* succeeds no second one is made.
C29_FallbackAfterAnyFailure == [][FallbackSteps]_vars

\* the first attempt ended in an exception and the export has returned
\* without a second attempt: every bulk-add sent carries the custom
\* variables
C29_Witness ==
    \E t \in DOMAIN task :
        /\ task[t].pc = "search" /\ task[t].at = "B1_err" /\ ~task[t].err1
        /\ RequestsOf(reqs, t, {"add"}) =
               {[lead |-> t, op |-> "add", arg |-> ExportPayload(task[t], FALSE)]}
        /\ ExportPayload(task[t], FALSE).custom_variables # None

\* the step in which attempt number task[t].attempt of worker t's request
\* gets the answer r
Got(t, r) ==
    LET tk == task[t]
        step == RetryStep(tk.attempt, cfg.retries, tk.lastExc, r)
    IN  /\ tk.pc \in RequestPcs /\ ~tk.sleeping
        /\ task'[t] = IF step.next = "sleep"
                      THEN [tk EXCEPT !.sleeping = TRUE, !.wait = step.wait,
                                      !.lastExc = step.lastExc]
                      ELSE After(Local(t), step.result).tk

Is429(r) == r.kind = "resp" /\ r.status = 429

Is5xx(r) == r.kind = "resp" /\ 500 <= r.status /\ r.status < 600

\* the sleep after answer r of attempt k, with the header taken as it is
HeaderSleep(r, k) ==
    IF Is429(r)
    THEN IF r.retry_after.k = "num" THEN r.retry_after.n ELSE Min(Pow2(k), 30)
    ELSE Min(Pow2(k), 10)

\* the same with the header's seconds capped at 30
CappedSleep(r, k) ==
    IF Is429(r)
    THEN IF r.retry_after.k = "num" THEN Min(r.retry_after.n, 30)
         ELSE Min(Pow2(k), 30)
    ELSE Min(Pow2(k), 10)

SleepsAsSaid(sleep(_, _), headers) ==
    \A t \in DOMAIN task : \A r \in cfg.failures :
        LET a == task[t]
            b == task'[t]
        IN  /\ (Got(t, r) /\ Is429(r) /\ r.retry_after.k \in headers) =>
                  b.sleeping /\ b.wait = sleep(r, a.attempt)
            /\ (Got(t, r) /\ Is5xx(r) /\ a.attempt < cfg.retries) =>
                  b.sleeping /\ b.wait = sleep(r, a.attempt)
            /\ (Got(t, r) /\ Is5xx(r) /\ a.attempt >= cfg.retries) =>
                  ~b.sleeping /\ Delivered(t, r)

\* C30 as stated: with base delay 1 the sleep after attempt k is, on a
\* 429, the value of the Retry-After header when there is one and
\* min(2^k, 30) otherwise; on a 5xx it is min(2^k, 10); a 5xx on the last
\* attempt is returned without a sleep.
C30_SleepIsHeaderValue == [][SleepsAsSaid(HeaderSleep, {"num", "none"})]_vars

\* C30 amended: on a 429 the sleep is min(Retry-After, 30) when the header
\* holds a number, and min(2^k, 30) when it is absent or is not a number;
\* on a 5xx it is min(2^k, 10); a 5xx on the last attempt is returned
\* without a sleep.
C30_SleepIsCapped == [][SleepsAsSaid(CappedSleep, {"num", "none", "text"})]_vars

\* the first attempt got a 429 whose Retry-After says 60 seconds: the
\* worker sleeps 30
C30_Witness ==
    \E t \in DOMAIN task :
        /\ task[t].sleeping /\ task[t].attempt = 0 /\ task[t].wait = 30
        /\ Resp429([k |-> "num", n |-> 60]) \in cfg.failures

(***************************************************************************)
(* The verification pass on records that share an email: three pending     *)
(* records, the second with the email of the first in another letter case  *)
(* and with blanks around it, or with another email, the third without     *)
(* email.  The service calls none of them good, so the run goes on with    *)
(* the cleanup of bad leads.                                               *)
(***************************************************************************)
MvCfg ==
    [verify |-> TRUE, max_records |-> 5000, retries |-> 0, failures |-> {},
     lossy |-> FALSE, log |-> TRUE, malformed |-> FALSE, ds_fails |-> FALSE,
     nf_texts |-> {TRUE}, verify_answers |-> {Txt("invalid"), [k |-> "fail"]}]

InitMv ==
    /\ InitRest(MvCfg)
    /\ InitPlatform({<<[name |-> Generic, id |-> CampId(1)]>>},
                    {[id |-> Uuid(1), email |-> Txt("a"), camp |-> CampId(1)]})
    /\ \E vstatus \in {None, Txt("invalid")},
          second \in {Str("a", TRUE, TRUE), Txt("b")},
          third \in {None, Str("", FALSE, TRUE)} :
          ds = <<LeadRec(1, None, "1", Txt("a"), None, NaN, vstatus),
                 LeadRec(2, None, "1", second, None, NaN, None),
                 LeadRec(3, None, "1", third, None, NaN, None)>>

NextMv ==
    \/ StartVerifiedSync
    \/ \E i \in DOMAIN ds : VerifySingleEmail(i)
    \/ SplitGoodBad
    \/ \E t \in DOMAIN task : BeginBad(t)
    \/ \E t \in DOMAIN task : SearchLeadAttempt(t)
    \/ \E t \in DOMAIN task : DeleteLeadAttempt(t)
    \/ FinishCleanup
    \/ FinishVerifiedSync

SpecMv == InitMv /\ [][NextMv]_vars

\* the verification calls made for the email e, trimmed and in lower case
VerifyCalls(e) ==
    {q \in reqs : q.op = "verify" /\ NormEmail(run.snap[q.lead].key_contact_email) = e}

\* C31: verify_pending_leads makes exactly one verification call for each
\* distinct email (trimmed, in lower case) among the records it has to
\* verify; records without email cause no call and are classified unknown.
C31_OneCallPerEmail ==
    run.mode = "verify" =>
        \A i \in DOMAIN run.vres :
            LET e == NormEmail(run.snap[i].key_contact_email)
            IN  ~IsTrusted(run.snap[i]) =>
                    IF e = None
                    THEN /\ RequestsOf(reqs, i, {"verify"}) = {}
                         /\ run.vres[i].status = "unknown"
                    ELSE /\ Cardinality(VerifyCalls(e)) <= 1
                         /\ run.pc # "verify" => Cardinality(VerifyCalls(e)) = 1

\* records 1 and 2 hold the same email, written "a" and " A ": a call was
\* made for each of them
C31_Witness ==
    /\ run.mode = "verify" /\ run.toVerify = {}
    /\ NormEmail(run.snap[1].key_contact_email) = NormEmail(run.snap[2].key_contact_email)
    /\ RequestsOf(reqs, 1, {"verify"}) # {}
    /\ RequestsOf(reqs, 2, {"verify"}) # {}
    /\ RequestsOf(reqs, 3, {"verify"}) = {}

\* the cleanup of the bad lead id has run and built its update: Blocked,
\* without pointers
CleanedUp(id) ==
    \E i \in DOMAIN run.badResults :
        /\ run.badResults[i].id = id
        /\ i \in DOMAIN run.badBatch
        /\ run.badBatch[i].id = id
        /\ run.badBatch[i].fields.instantly_statuts = Txt("Blocked")
        /\ run.badBatch[i].fields.instantly_lead_id = None
        /\ run.badBatch[i].fields.instantly_campaign_id = None

\* C32: in a run with verification, every lead classified bad gets the
\* cleanup pass and a datastore update that marks it Blocked and clears its
\* campaign pointers, whatever came of the good leads in the same run.
C32_BadLeadsAlwaysCleaned ==
    (run.pc = "idle" /\ run.mode = "verify") =>
        \A id \in Range(run.bad) : CleanedUp(id)

\* the run has returned after the batch update of its good lead failed:
\* the bad lead was not cleaned up and its record is as it was
C32_Witness ==
    /\ run.pc = "idle" /\ run.mode = "verify"
    /\ run.good = <<1>> /\ run.bad = <<2>>
    /\ run.syncOk = "failed"
    /\ run.badResults = <<>> /\ run.badBatch = <<>>
    /\ RequestsOf(reqs, 2, {"search", "delete"}) = {}
    /\ ds[2] = run.snap[2]

\* sync_pending_leads starts, and with it reset_campaign_cache()
SessionStarts == run.pc # "sync" /\ run'.pc = "sync"

\* a step of a reconciler worker
WorkerStep == run.pc = "sync" /\ run'.pc = "sync" /\ task' # task

\* worker t enters export_leads_to_instantly
EntersExport(t) ==
    /\ WorkerStep /\ t \in DOMAIN task
    /\ task[t].pc \notin {"vars", "add1", "add2"}
    /\ task'[t].pc \in {"vars", "add1"}

\* C33 as stated: the campaign cache and its loaded flag are the only
\* state the reconciler workers share, so no step of a worker changes
\* another module-level variable, and the reset at the start of a session
\* puts all shared state back to its initial value.
C33_OnlyCacheIsShared ==
    [][/\ (WorkerStep => varsReg' = varsReg)
       /\ (SessionStarts => cache' = <<>> /\ ~loaded' /\ varsReg' = {})]_vars

\* C33 amended: the workers share the campaign cache, its loaded flag and
\* the set of campaigns whose variables were registered.  A worker that
\* enters export_leads_to_instantly reads that set to decide whether to
\* register the variables, and adds its campaign to it; no other step
\* changes the set, and the reset at the start of a session empties the
\* cache and clears the flag but keeps the set.
C33_SharedStateIsCacheAndRegistered ==
    [][/\ \A t \in DOMAIN task :
              EntersExport(t) =>
                  /\ (task'[t].pc = "vars") = (task'[t].cid \notin varsReg)
                  /\ varsReg' = varsReg \cup {task'[t].cid}
       /\ (WorkerStep /\ ~(\E t \in DOMAIN task : EntersExport(t))) =>
              varsReg' = varsReg
       /\ (SessionStarts => cache' = <<>> /\ ~loaded' /\ varsReg' = varsReg)]_vars

\* two workers of the first session create leads in the same campaign:
\* the first is registering the variables, and the second went straight
\* to the bulk-add because the first had put the campaign in the set
C33_Witness ==
    /\ run.pc = "sync" /\ run.n = 1
    /\ DOMAIN task = {1, 2}
    /\ task[1].pc = "vars" /\ task[2].pc = "add1"
    /\ task[1].cid = task[2].cid
    /\ varsReg = {task[1].cid}

\* a step of worker t
WorkerMove(t) ==
    \/ BeginLead(t) \/ ListCampaignsAttempt(t) \/ CreateCampaignAttempt(t)
    \/ GetLeadAttempt(t) \/ PatchLeadAttempt(t) \/ DeleteLeadAttempt(t)
    \/ SearchLeadAttempt(t) \/ RegisterVariablesAttempt(t) \/ BulkAddAttempt(t)
    \/ Wake(t)

\* worker t is at the cache lock, which worker s holds
WaitsFor(t, s) == task[t].pc = "queued" /\ lock = s

\* C34: while a worker sleeps between two attempts of a request, the
\* requests of campaign resolution included, every other worker that has
\* work left can take a step and waits for nothing the sleeper holds.
C34_SleepBlocksOnlySleeper ==
    \A s \in DOMAIN task : \A t \in DOMAIN task \ {s} :
        (run.pc = "sync" /\ task[s].sleeping /\ task[t].pc # "done") =>
            ENABLED WorkerMove(t) /\ ~WaitsFor(t, s)

\* worker 1 sleeps before the next attempt of its campaign listing and
\* holds the cache lock; worker 2 has not started and cannot
C34_Witness ==
    /\ run.pc = "sync" /\ DOMAIN task = {1, 2}
    /\ task[1].pc = "list" /\ task[1].sleeping /\ task[1].wait > 0
    /\ lock = 1
    /\ task[2].pc = "queued"
    /\ ~ENABLED WorkerMove(2)

\* the outcomes of leads that had a valid pointer, the email mark and an
\* email, whose remote lead holds that email, and whose record has
\* last_synced_at advanced to the time of the run
SyncedTwins ==
    {i \in DOMAIN run.syncResults :
        LET res == run.syncResults[i]
            rec == run.snap[res.id]
            ptr == rec.instantly_lead_id
        IN  /\ res.status = "Success"
            /\ HasValidPointer(rec) /\ HasEmailMark(rec)
            /\ NormEmail(rec.key_contact_email) # None
            /\ RemoteHas(ptr)
            /\ Lower(RemoteLead(ptr).email) = NormEmail(rec.key_contact_email)
            /\ ds[res.id].last_synced_at = run.now}

\* C35: when a lead with a valid pointer, the email mark and an email,
\* whose remote lead exists with the same email, ends a run with a
\* Success outcome and last_synced_at advanced, the platform accepted
\* during that run a patch, or a create that replaces the lead, with the
\* lead's current fields; a request the platform accepted was sent.
C35_NoUpdateLost ==
    Committed =>
        \A i \in SyncedTwins :
            RequestsOf(reqs, run.syncResults[i].id, {"patch", "add"}) # {}

\* the get of the record's lead failed; the search found that same lead
\* and the outcome is Link: the record counts as synced, and neither a
\* patch nor a create was sent
C35_Witness ==
    /\ Committed
    /\ SyncedTwins = {1}
    /\ run.syncResults[1].op = "Link"
    /\ run.syncResults[1].new_instantly_id = run.snap[1].instantly_lead_id
    /\ RequestsOf(reqs, 1, {"get"}) # {}
    /\ RequestsOf(reqs, 1, {"search"}) # {}
    /\ RequestsOf(reqs, 1, {"patch", "add", "delete"}) = {}

\* the outcomes Create, Update and Link whose update is in the datastore
WrittenPointers ==
    {i \in DOMAIN run.syncResults :
        /\ run.syncResults[i].status = "Success"
        /\ run.syncResults[i].op \in {"Create", "Update", "Link"}
        /\ run.syncResults[i].new_instantly_id # None}

\* C36: after a successful Create, Update or Link the instantly_campaign_id
\* written to the datastore is the campaign that holds the remote lead the
\* written instantly_lead_id refers to, also when the lead's industry, and
\* so its campaign name, changed since the last sync.
C36_WrittenCampaignHoldsLead ==
    Committed =>
        \A i \in WrittenPointers :
            LET rec == ds[run.syncResults[i].id]
            IN  RemoteHas(rec.instantly_lead_id) =>
                    RemoteLead(rec.instantly_lead_id).camp = rec.instantly_campaign_id

\* a record of industry Shops whose lead is in the campaign of the
\* generic name: the lead was patched where it is, and the record now
\* names the campaign of Shops
C36_Witness ==
    /\ Committed
    /\ WrittenPointers = {1}
    /\ run.syncResults[1].op = "Update"
    /\ run.snap[1].industry = Txt("Shops")
    /\ ds[1].instantly_lead_id = Uuid(1)
    /\ ds[1].instantly_campaign_id = CampId(2)
    /\ RemoteHas(Uuid(1)) /\ RemoteLead(Uuid(1)).camp = CampId(1)

Categories ==
    {"nan_json", "rate_limited", "missing_config", "invalid_id", "not_found",
     "email_change", "duplicate", "other"}

Causes == {"none", "nan", "429", "missing", "invalid_id", "not_found", "duplicate"}

\* the texts of lines 112, 184 and 218 hold "create failed"; the one of
\* line 184 holds "email changed" as well
SaysCreateFailed(error) ==
    error \in {"no_campaign", "email_changed_create_failed", "create_failed"}

classify_error(text) ==
    IF text.cause = "nan" THEN "nan_json"
    ELSE IF text.cause = "429" THEN "rate_limited"
    ELSE IF text.cause = "missing" THEN "missing_config"
    ELSE IF text.cause = "invalid_id" THEN "invalid_id"
    ELSE IF text.cause = "not_found" THEN "not_found"
    ELSE IF SaysCreateFailed(text.error) THEN "email_change"
    ELSE IF text.cause = "duplicate" THEN "duplicate"
    ELSE "other"

\* failure_counts: a Counter of the categories of the failed outcomes
FailureCounts(results, cause) ==
    [c \in Categories |->
        Cardinality({i \in 1..Len(results) :
            /\ results[i].status # "Success"
            /\ classify_error([error |-> results[i].error, cause |-> cause[i]]) = c})]

(***************************************************************************)
(* SpecRep: sync_pending_leads on three pending records without pointer,   *)
(* with a cap of one or two records, on a platform that may refuse a       *)
(* request with a 400.                                                     *)
(***************************************************************************)
RepCfg(max_records) ==
    [verify |-> FALSE, max_records |-> max_records, retries |-> 0,
     failures |-> {Resp(400, ErrBody(FALSE))}, lossy |-> FALSE, log |-> FALSE,
     malformed |-> FALSE, ds_fails |-> TRUE, nf_texts |-> {FALSE},
     verify_answers |-> {}]

InitRep ==
    /\ \E max_records \in 1..MaxCap : InitRest(RepCfg(max_records))
    /\ InitPlatform({<<[name |-> Generic, id |-> CampId(1)]>>},
                    {[id |-> Uuid(3), email |-> Txt("c"), camp |-> CampId(1)]})
    /\ ds = [i \in 1..3 |-> LeadRec(i, None, "1", Txt(<<"a", "b", "c">>[i]), None, NaN, None)]

NextRep ==
    \/ StartSync
    \/ \E t \in DOMAIN task : BeginLead(t)
    \/ \E t \in DOMAIN task : ListCampaignsAttempt(t)
    \/ \E t \in DOMAIN task : SearchLeadAttempt(t)
    \/ \E t \in DOMAIN task : RegisterVariablesAttempt(t)
    \/ \E t \in DOMAIN task : BulkAddAttempt(t)
    \/ FinishSync

SpecRep == InitRep /\ [][NextRep]_vars

RECURSIVE SumOver(_, _)
SumOver(f, S) ==
    IF S = {} THEN 0
    ELSE LET x == CHOOSE y \in S : TRUE IN f[x] + SumOver(f, S \ {x})

\* the records sync_pending_leads was called with
PassedIn == {i \in DOMAIN run.snap : IsPending(run.snap[i])}

\* C38: when sync_pending_leads returns a report, there is exactly one
\* update for each processed lead, count + failures is the number of
\* processed leads, the counts of the failure categories add up to
\* failures, and count + failures + skipped is the number of pending
\* leads passed in; the update of a failed lead is the same whatever the
\* category of its error text.
C38_ReportAddsUp ==
    (run.pc = "idle" /\ run.n > 0 /\ ~run.report.error) =>
        LET results == run.syncResults
            n == Len(results)
            ids == {results[i].id : i \in 1..n}
        IN  /\ Len(run.syncBatch) = n
            /\ \A i \in 1..n : run.syncBatch[i].id = results[i].id
            /\ Cardinality(ids) = n
            /\ ids \subseteq PassedIn
            /\ run.report.count + run.report.failures = n
            /\ run.report.count + run.report.failures + run.report.skipped
                   = Cardinality(PassedIn)
            /\ \A cause \in [1..n -> Causes] :
                  SumOver(FailureCounts(results, cause), Categories)
                      = run.report.failures
            /\ \A i \in 1..n : \A error \in {"create_failed", "delete_failed"} :
                  results[i].status # "Success" =>
                      run.syncBatch[i] = UpdateFor([results[i] EXCEPT !.error = error],
                                                   run.now)

\* three pending leads and a cap of two: one lead was created, one
\* failed, one was left for the next run
C38_Witness ==
    /\ run.pc = "idle" /\ run.n = 1 /\ ~run.report.error
    /\ cfg.max_records = 2
    /\ run.report.count = 1 /\ run.report.failures = 1 /\ run.report.skipped = 1
    /\ Len(run.syncBatch) = 2
    /\ \E i \in 1..2 : run.syncResults[i].status = "Failed"
                          /\ run.syncResults[i].error = "create_failed"

(***************************************************************************)
(* SpecTerm: sync_pending_leads on two pending records, processed by two   *)
(* workers, on a platform that holds no campaign or more campaigns than    *)
(* the listing reads, and that may answer a request with a 429 or not at   *)
(* all.  The pool runs its workers, the sleeps end, and the caller's       *)
(* thread goes on once the workers are done.                               *)
(***************************************************************************)
TermCfg ==
    [verify |-> FALSE, max_records |-> 5000, retries |-> 0,
     failures |-> {Resp429(None), Exc}, lossy |-> FALSE, log |-> FALSE,
     malformed |-> FALSE, ds_fails |-> TRUE, nf_texts |-> {TRUE},
     verify_answers |-> {}]

InitTerm ==
    /\ InitRest(TermCfg)
    /\ campaigns \in {<<>>,
                       [i \in 1..MaxCampaigns |->
                          [name |-> IF i = MaxCampaigns THEN Generic
                                    ELSE "Other - Cold Outreach",
                           id |-> CampId(i)]]}
    /\ rleads \in SUBSET {[id |-> Uuid(1), email |-> Txt("b"), camp |-> CampId(1)]}
    /\ WellFormed(campaigns, rleads)
    /\ nextId = 100
    /\ \E ptr \in {None, Uuid(1)} :
          ds = <<LeadRec(1, None, "1", Txt("a"), None, Txt("75001"), None),
                 LeadRec(2, ptr, "1", Txt("b"), None, Txt("75001"), None)>>

SpecTerm ==
    /\ InitTerm /\ [][Next]_vars
    /\ WF_vars(Workers) /\ WF_vars(FinishSync)

\* every outcome of the run is in, one for each pending record
Collected ==
    {run.syncResults[i].id : i \in DOMAIN run.syncResults}
        = {i \in DOMAIN run.snap : IsPending(run.snap[i])}

====
